---- MODULE Spec2Model ----
(***************************************************************************)
(* Protocol Adapter Execution Engine of FrankenStack: the GraphQL -> REST  *)
(* adapter (graphqlToRestAdapter.js) with its retry loop and its batch     *)
(* coordinator, and the REST -> GraphQL adapter (restToGraphQLAdapter.js). *)
(*                                                                         *)
(* One step of the model is one turn of the JavaScript event loop: the     *)
(* code that runs between two awaits on I/O or on a timer.  A remote       *)
(* response is delivered whole (status, headers and body together).        *)
(***************************************************************************)
EXTENDS Integers, Sequences, FiniteSets, TLC

(***************************************************************************)
(* Bounds of the model.                                                    *)
(***************************************************************************)
\* largest maxRetries argument of a standalone executeRestWithRetry call
MaxAttempts == 4

(***************************************************************************)
(* Program constants.                                                      *)
(***************************************************************************)
\* executeRestWithRetry(..., maxRetries = 3)
DefaultMaxRetries == 3
\* calculateBackoff: baseDelay, maxDelay, and the jitter range Math.random() * 1000
BaseDelay == 1000
MaxDelay == 30000
JitterRange == 1000
\* executeRest: response.headers.get('retry-after') || 5
DefaultRetryAfter == 5

\* JavaScript's undefined and NaN where a number is expected
Undefined == -1
NaN == -2

(***************************************************************************)
(* Errors: the classes of graphqlToRestAdapter.js and the built-in ones.   *)
(* at is the attempt (0-indexed) whose executeRest call raised the error,  *)
(* so that two errors of the same class raised by two attempts differ.     *)
(***************************************************************************)
Err(name) ==
    [name |-> name, statusCode |-> Undefined, retryAfter |-> Undefined, at |-> Undefined,
     graphqlErrors |-> <<>>, field |-> "none"]

NoError == Err("none")

RestAPIError(statusCode, at) ==
    [Err("RestAPIError") EXCEPT !.statusCode = statusCode, !.at = at]

RateLimitError(retryAfter, at) ==
    [Err("RateLimitError") EXCEPT !.retryAfter = retryAfter, !.at = at]

\* new GraphQLError(errors): graphqlErrors is the list handed over
GraphQLError(errors) == [Err("GraphQLError") EXCEPT !.graphqlErrors = errors]

\* a built-in TypeError (a property read on null or undefined), and the plain
\* Error that executeGraphQL's catch block rethrows
TypeError == Err("TypeError")

PlainError == Err("Error")

(***************************************************************************)
(* What the REST remote can answer to one request.  status 0 with          *)
(* net = TRUE is a fetch that rejects (no HTTP response at all); json says *)
(* whether response.json() parses the body; header is the retry-after      *)
(* header: Undefined (absent), NaN (present, not a number) or its value;   *)
(* body is what a parsable body parses to: an object, or the JSON null.    *)
(***************************************************************************)
RestStatuses == {200, 404, 429, 500, 503}
RetryAfterHeaders == {Undefined, NaN, 7}

RestResponses ==
    {[net |-> TRUE, status |-> 0, json |-> FALSE, header |-> Undefined, body |-> "object"]}
    \cup {[net |-> FALSE, status |-> s, json |-> j, header |-> Undefined, body |-> "object"] :
            s \in RestStatuses \ {429}, j \in BOOLEAN}
    \cup {[net |-> FALSE, status |-> s, json |-> TRUE, header |-> Undefined, body |-> "null"] :
            s \in {200, 500}}
    \cup {[net |-> FALSE, status |-> 429, json |-> TRUE, header |-> h, body |-> "object"] :
            h \in RetryAfterHeaders}

ResponseOk(r) == r.status >= 200 /\ r.status <= 299

\* parseInt(retryAfter, 10) of  response.headers.get('retry-after') || 5
ParseRetryAfter(header) ==
    IF header = Undefined THEN DefaultRetryAfter ELSE header

(***************************************************************************)
(* executeRest: the outcome of one call whose fetch settled with r, made   *)
(* by attempt at.  Either [ok |-> TRUE] (the parsed body is returned) or   *)
(* [ok |-> FALSE, err |-> the error thrown].  On a non-ok response whose   *)
(* body is null,  result.error?.message  throws a TypeError, which the     *)
(* catch block rethrows as RestAPIError(..., 0, null).                     *)
(***************************************************************************)
executeRest(r, at) ==
    IF r.net THEN [ok |-> FALSE, err |-> RestAPIError(0, at)]
    ELSE IF r.status = 429
        THEN [ok |-> FALSE, err |-> RateLimitError(ParseRetryAfter(r.header), at)]
    ELSE IF ~r.json THEN [ok |-> FALSE, err |-> RestAPIError(0, at)]
    ELSE IF ~ResponseOk(r) /\ r.body = "null" THEN [ok |-> FALSE, err |-> RestAPIError(0, at)]
    ELSE IF ~ResponseOk(r) THEN [ok |-> FALSE, err |-> RestAPIError(r.status, at)]
    ELSE [ok |-> TRUE, err |-> NoError]

\* executeRest called with auth undefined: auth.token throws inside the try,
\* before any fetch, and the catch rethrows it as RestAPIError(..., 0, null)
executeRestNoAuth(at) == [ok |-> FALSE, err |-> RestAPIError(0, at)]

(***************************************************************************)
(* calculateBackoff(attempt) for a jitter j drawn by Math.random() * 1000  *)
(* (the fractional part is dropped: delays are whole milliseconds here).   *)
(***************************************************************************)
RECURSIVE Pow2(_)
Pow2(n) == IF n <= 0 THEN 1 ELSE 2 * Pow2(n - 1)

Min(a, b) == IF a <= b THEN a ELSE b

\* calculateBackoff without the cap at maxDelay
calculateBackoffNoCap(attempt, jitter) == BaseDelay * Pow2(attempt) + jitter

calculateBackoff(attempt, jitter) == Min(BaseDelay * Pow2(attempt), MaxDelay) + jitter

Jitters == {0, JitterRange - 1}

(***************************************************************************)
(* The retry decision of executeRestWithRetry's catch block.               *)
(***************************************************************************)
IsRateLimit(err) == err.name = "RateLimitError" \/ err.statusCode = 429

IsServerError(err) == err.statusCode >= 500

\* ShouldRetry retrying every error status from 400 on
ShouldRetryClientErrors(err) == IsRateLimit(err) \/ err.statusCode >= 400

ShouldRetry(err) == IsRateLimit(err) \/ IsServerError(err)

(***************************************************************************)
(* One executeRestWithRetry call: its locals (attempt, lastError), where   *)
(* it stands (st), and what an observer counts: calls of executeRest,      *)
(* requests put on the wire, backoff sleeps (and the delay of the latest   *)
(* one), and the responses received so far (hist).                         *)
(***************************************************************************)
NewTask(maxRetries, authOk) ==
    [st |-> "idle", attempt |-> 0, maxRetries |-> maxRetries, authOk |-> authOk,
     lastError |-> NoError, thrown |-> NoError,
     calls |-> 0, requests |-> 0, waits |-> 0, delay |-> 0, hist |-> <<>>]

\* the error the loop leaves with when the budget is used up:  throw lastError
ExhaustedError(t) == t.lastError

\* the body of the catch block for error err
Caught(t, err, jitter) ==
    IF ShouldRetry(err)
    THEN [t EXCEPT !.st = "sleeping", !.lastError = err, !.waits = @ + 1,
                   !.delay = calculateBackoff(t.attempt, jitter)]
    ELSE [t EXCEPT !.st = "thrown", !.lastError = err, !.thrown = err]

\* Attempt with the loop test off by one
AttemptOffByOne(t) ==
    IF t.attempt > t.maxRetries
    THEN [t EXCEPT !.st = "thrown", !.thrown = ExhaustedError(t)]
    ELSE [t EXCEPT !.st = "fetching", !.calls = @ + 1, !.requests = @ + 1]

\* the loop head and the call of executeRest, up to its  await fetch(...)
Attempt(t) ==
    IF t.attempt >= t.maxRetries
    THEN [t EXCEPT !.st = "thrown", !.thrown = ExhaustedError(t)]
    ELSE IF ~t.authOk
    THEN Caught([t EXCEPT !.calls = @ + 1], executeRestNoAuth(t.attempt).err, 0)
    ELSE [t EXCEPT !.st = "fetching", !.calls = @ + 1, !.requests = @ + 1]

\* the fetch settles with response r
Settle(t, r, jitter) ==
    LET out == executeRest(r, t.attempt)
        t1 == [t EXCEPT !.hist = Append(@, r)]
    IN  IF out.ok THEN [t1 EXCEPT !.st = "returned"]
        ELSE Caught(t1, out.err, jitter)

\* the backoff timer fires:  continue  to the next iteration
Wake(t) == Attempt([t EXCEPT !.attempt = @ + 1])

TaskDone(t) == t.st \in {"returned", "thrown"}

\* what a returned call returns:  return result , the parsed body of the
\* response to its last request
ResultOf(t) == t.hist[Len(t.hist)].body

(***************************************************************************)
(* The caller's config of graphqlToRestAdapter.  present = FALSE is a null *)
(* config; sourceAuth / targetAuth say whether the auth objects are there; *)
(* mappingsNull is  mappings: null ; batchMode is  config.batchMode !==    *)
(* false ; batchSize is the raw value, 0 standing for absent or 0.         *)
(***************************************************************************)
DefaultBatchSize == 5

BatchSizeOf(cfg) == IF cfg.batchSize = 0 THEN DefaultBatchSize ELSE cfg.batchSize

HealthyConfig(batchMode, batchSize) ==
    [present |-> TRUE, sourceAuth |-> TRUE, targetAuth |-> TRUE, mappingsNull |-> FALSE,
     batchMode |-> batchMode, batchSize |-> batchSize]

(***************************************************************************)
(* What the GraphQL source can answer.  errors is the body's top-level     *)
(* errors list; hasData says whether the body has a data field; shape is   *)
(* the shape of data: a products connection, a bare connection (edges), or *)
(* a single object; nodes are the edges' nodes, "product" or "null".       *)
(***************************************************************************)
SourceBody(errors, hasData, shape, nodes) ==
    [net |-> FALSE, status |-> 200, json |-> TRUE, errors |-> errors, hasData |-> hasData,
     shape |-> shape, nodes |-> nodes]

SourceData(shape, nodes) == SourceBody(<<>>, TRUE, shape, nodes)

\* executeGraphQL that returns result.data whatever the body's errors list
executeGraphQLDataFirst(cfg, r) ==
    IF ~cfg.sourceAuth THEN [ok |-> FALSE, err |-> PlainError]
    ELSE IF r.net THEN [ok |-> FALSE, err |-> PlainError]
    ELSE IF ~ResponseOk(r) THEN [ok |-> FALSE, err |-> PlainError]
    ELSE IF ~r.json THEN [ok |-> FALSE, err |-> PlainError]
    ELSE IF Len(r.errors) > 0 /\ ~r.hasData THEN [ok |-> FALSE, err |-> GraphQLError(r.errors)]
    ELSE [ok |-> TRUE, err |-> NoError]

\* executeGraphQL of graphqlToRestAdapter.js: [ok, err]; on ok the value
\* returned is result.data.  auth.token of a missing auth object throws inside
\* the try block, before the fetch.
executeGraphQL_G2R(cfg, r) ==
    IF ~cfg.sourceAuth THEN [ok |-> FALSE, err |-> PlainError]
    ELSE IF r.net THEN [ok |-> FALSE, err |-> PlainError]
    ELSE IF ~ResponseOk(r) THEN [ok |-> FALSE, err |-> PlainError]
    ELSE IF ~r.json THEN [ok |-> FALSE, err |-> PlainError]
    ELSE IF Len(r.errors) > 0 THEN [ok |-> FALSE, err |-> GraphQLError(r.errors)]
    ELSE [ok |-> TRUE, err |-> NoError]

\* A node of a products connection: null, a product without a variants
\* connection ("product"), or a product whose variants.edges is empty, starts
\* with an edge of null node, or starts with an edge holding a variant.
VariantNodes ==
    {"product{variants:[]}", "product{variants:[null]}", "product{variants:[variant]}"}

\* the callback of products.edges.map for a node that is an object:
\* product.firstVariant = product.variants.edges[0]?.node || null  when the
\* product has a variants connection, and the product as it is otherwise
withFirstVariant(node) ==
    IF node = "product{variants:[variant]}"
    THEN "product{variants:[variant],firstVariant:variant}"
    ELSE IF node = "product{variants:[null]}" THEN "product{variants:[null],firstVariant:null}"
    ELSE IF node = "product{variants:[]}" THEN "product{variants:[],firstVariant:null}"
    ELSE node

\* parseGraphQLResponse without the Array.isArray test of its last line: a
\* sequence is wrapped like a single object
parseGraphQLResponseWrapping(r) ==
    IF ~r.hasData THEN [ok |-> FALSE, err |-> TypeError, items |-> <<>>]
    ELSE IF r.shape = "products"
    THEN IF \E k \in DOMAIN r.nodes : r.nodes[k] = "null"
         THEN [ok |-> FALSE, err |-> TypeError, items |-> <<>>]
         ELSE [ok |-> TRUE, err |-> NoError,
               items |-> [k \in DOMAIN r.nodes |-> withFirstVariant(r.nodes[k])]]
    ELSE IF r.shape = "edges" THEN [ok |-> TRUE, err |-> NoError, items |-> r.nodes]
    ELSE IF r.shape = "array" THEN [ok |-> TRUE, err |-> NoError, items |-> <<"array">>]
    ELSE [ok |-> TRUE, err |-> NoError, items |-> <<"product">>]

\* parseGraphQLResponse(result.data): [ok, err, items].  A data of shape
\* "array" is a flat sequence already, whose elements are the nodes; a data
\* of shape "object" is the single object "product".
parseGraphQLResponse(r) ==
    IF ~r.hasData THEN [ok |-> FALSE, err |-> TypeError, items |-> <<>>]
    ELSE IF r.shape = "products"
    THEN IF \E k \in DOMAIN r.nodes : r.nodes[k] = "null"
         THEN [ok |-> FALSE, err |-> TypeError, items |-> <<>>]
         ELSE [ok |-> TRUE, err |-> NoError,
               items |-> [k \in DOMAIN r.nodes |-> withFirstVariant(r.nodes[k])]]
    ELSE IF r.shape = "edges" THEN [ok |-> TRUE, err |-> NoError, items |-> r.nodes]
    ELSE IF r.shape = "array" THEN [ok |-> TRUE, err |-> NoError, items |-> r.nodes]
    ELSE [ok |-> TRUE, err |-> NoError, items |-> <<"product">>]

\* transformShopifyToStripe(item, config.mappings) throws a TypeError when it
\* reads  shopifyProduct.title  of a null item, or  Object.keys(null)
TransformThrows(item, cfg) == item = "null" \/ cfg.mappingsNull

(***************************************************************************)
(* The outcome of one batch item, and the promise of its async callback.   *)
(* of is the input index of the item the callback was started for.         *)
(***************************************************************************)
NoOutcome == [success |-> FALSE, hasData |-> FALSE, hasError |-> FALSE, error |-> NoError, of |-> 0]

\* {success: true, data: result, item: item.title} : data is whatever the
\* call returned, and null when the body was the JSON null
SuccessOutcome(k, result) ==
    [success |-> TRUE, hasData |-> (result # "null"), hasError |-> FALSE, error |-> NoError,
     of |-> k]

FailureOutcome(k, err) ==
    [success |-> FALSE, hasData |-> FALSE, hasError |-> TRUE, error |-> err, of |-> k]

NoPromise == [st |-> "none", value |-> NoOutcome]

Pending == [st |-> "pending", value |-> NoOutcome]

Fulfilled(outcome) == [st |-> "fulfilled", value |-> outcome]

\* the callback's catch block:  return {success: false, error: error.message,
\* item: item.title} , which itself throws on a null item
ItemCatch(k, item, err) ==
    IF item = "null" THEN [st |-> "rejected", value |-> NoOutcome]
    ELSE Fulfilled(FailureOutcome(k, err))

\* the promise of item k's callback once its executeRestWithRetry call is t
ItemPromise(k, item, t) ==
    IF t.st = "returned" THEN Fulfilled(SuccessOutcome(k, ResultOf(t)))
    ELSE IF t.st = "thrown" THEN ItemCatch(k, item, t.thrown)
    ELSE Pending

\* the synchronous part of the callback of item k, up to its first await
LaunchTask(item, cfg) ==
    IF TransformThrows(item, cfg) THEN NewTask(DefaultMaxRetries, cfg.targetAuth)
    ELSE Attempt(NewTask(DefaultMaxRetries, cfg.targetAuth))

LaunchPromise(k, item, cfg) ==
    IF TransformThrows(item, cfg) THEN ItemCatch(k, item, TypeError)
    ELSE ItemPromise(k, item, LaunchTask(item, cfg))

Max(a, b) == IF a >= b THEN a ELSE b

\* the position Array.prototype.slice makes of an argument x for an array of
\* length n: a negative x counts from the end, and the result is kept in 0..n
SliceIndex(x, n) == IF x < 0 THEN Max(n + x, 0) ELSE Min(x, n)

\* items.slice(i, i + batchSize), as 1-based indexes
GroupOf(i, b, n) == (SliceIndex(i, n) + 1)..SliceIndex(i + b, n)

\* Promise.all over the group: rejected as soon as one promise is, fulfilled
\* once all are, with the values in the order of the promises
AllRejected(ps, g) == \E k \in g : ps[k].st = "rejected"

AllFulfilled(ps, g) == \A k \in g : ps[k].st = "fulfilled"

RECURSIVE AllValues(_, _, _)
AllValues(ps, lo, hi) ==
    IF lo > hi THEN <<>> ELSE <<ps[lo].value>> \o AllValues(ps, lo + 1, hi)

(***************************************************************************)
(* The result envelope.                                                    *)
(***************************************************************************)
NoEnvelope ==
    [returned |-> FALSE, success |-> FALSE, hasData |-> FALSE, processed |-> 0,
     results |-> <<>>, hasError |-> FALSE, error |-> NoError, hasStack |-> FALSE]

SuccessEnvelope(results) ==
    [returned |-> TRUE, success |-> TRUE, hasData |-> TRUE, processed |-> Len(results),
     results |-> results, hasError |-> FALSE, error |-> NoError, hasStack |-> FALSE]

\* process.env.NODE_ENV: 'development', or anything else ("unset")
NodeEnvs == {"development", "unset"}

\* handleError attaching the stack whatever NODE_ENV is
handleErrorWithStack(err, env) ==
    [returned |-> TRUE, success |-> FALSE, hasData |-> FALSE, processed |-> 0,
     results |-> <<>>, hasError |-> TRUE, error |-> err, hasStack |-> TRUE]

\* handleError(error) of graphqlToRestAdapter.js under NODE_ENV env
handleError_G2R(err, env) ==
    [returned |-> TRUE, success |-> FALSE, hasData |-> FALSE, processed |-> 0,
     results |-> <<>>, hasError |-> TRUE, error |-> err, hasStack |-> (env = "development")]

\* the try block of graphqlToRestAdapter without the parsing step
G2RTryCoversButParse(step) == step \in {"config", "query", "batch", "single"}

\* the statements of graphqlToRestAdapter that its try block encloses
G2RTryCovers(step) == step \in {"config", "query", "parse", "batch", "single"}

(***************************************************************************)
(* restToGraphQLAdapter.js.  A payload is described by what validatePayload *)
(* and transformStripeToShopify look at: whether it is an object at all,   *)
(* its type, whether data and data.object are there, the amount           *)
(* (Undefined when there is none), the currency and the customer.          *)
(***************************************************************************)
SupportedEvent == "payment_intent.succeeded"

EventTypes == {"absent", SupportedEvent, "charge.failed"}

DataShapes == {"nodata", "noobject", "object"}

Amounts == {Undefined, 0, 5, 5000}

Currencies == {"absent", "usd", "nonstring"}

Customers == {"absent", "noemail", "a@b.com"}

Payloads ==
    [isObject : BOOLEAN, type : EventTypes, data : DataShapes, amount : Amounts,
     currency : Currencies, customer : Customers]

NullPayload ==
    [isObject |-> FALSE, type |-> "absent", data |-> "nodata", amount |-> Undefined,
     currency |-> "absent", customer |-> "absent"]

ValidationError(field) == [Err("ValidationError") EXCEPT !.field = field]

\* validatePayload without the check of the event type's value
validatePayloadAnyEvent(p) ==
    IF ~p.isObject THEN ValidationError("payload")
    ELSE IF p.type = "absent" THEN ValidationError("type")
    ELSE IF p.data # "object" THEN ValidationError("data.object")
    ELSE IF p.amount \in {Undefined, 0} THEN ValidationError("amount")
    ELSE IF p.currency = "absent" THEN ValidationError("currency")
    ELSE IF p.customer \in {"absent", "noemail"} THEN ValidationError("customer.email")
    ELSE NoError

\* validatePayload without the check of the customer
validatePayloadNoCustomer(p) ==
    IF ~p.isObject THEN ValidationError("payload")
    ELSE IF p.type = "absent" THEN ValidationError("type")
    ELSE IF p.data # "object" THEN ValidationError("data.object")
    ELSE IF p.type # SupportedEvent THEN ValidationError("type")
    ELSE IF p.amount \in {Undefined, 0} THEN ValidationError("amount")
    ELSE IF p.currency = "absent" THEN ValidationError("currency")
    ELSE NoError

\* validatePayload(payload, schema): the error it throws, NoError when it returns
validatePayload(p) ==
    IF ~p.isObject THEN ValidationError("payload")
    ELSE IF p.type = "absent" THEN ValidationError("type")
    ELSE IF p.data # "object" THEN ValidationError("data.object")
    ELSE IF p.type # SupportedEvent THEN ValidationError("type")
    ELSE IF p.amount \in {Undefined, 0} THEN ValidationError("amount")
    ELSE IF p.currency = "absent" THEN ValidationError("currency")
    ELSE IF p.customer \in {"absent", "noemail"} THEN ValidationError("customer.email")
    ELSE NoError

\* transformStripeToShopify throws a TypeError when the currency is no string
\* (toUpperCase is not a function)
TransformStripeThrows(p) == p.currency = "nonstring"

(***************************************************************************)
(* transformStripeToShopify(stripePayload, customMappings), field by       *)
(* field.  A JavaScript string that the code takes apart is a sequence of  *)
(* one-character strings.                                                  *)
(***************************************************************************)
\* the literal 'Customer'
CustomerText == <<"C", "u", "s", "t", "o", "m", "e", "r">>

\* the first index of character c in s at or after index from, 0 when there is none
RECURSIVE IndexOf(_, _, _)
IndexOf(s, c, from) ==
    IF from > Len(s) THEN 0
    ELSE IF s[from] = c THEN from
    ELSE IndexOf(s, c, from + 1)

\* s.split(' '): the pieces between the spaces, empty pieces included
RECURSIVE SplitOnSpace(_)
SplitOnSpace(s) ==
    LET n == IndexOf(s, " ", 1) IN
    IF n = 0 THEN <<s>>
    ELSE <<SubSeq(s, 1, n - 1)>> \o SplitOnSpace(SubSeq(s, n + 1, Len(s)))

\* parts.join(' ')
RECURSIVE JoinWithSpace(_)
JoinWithSpace(parts) ==
    IF parts = <<>> THEN <<>>
    ELSE IF Len(parts) = 1 THEN parts[1]
    ELSE parts[1] \o <<" ">> \o JoinWithSpace(Tail(parts))

\* getNestedValue(stripePayload, 'data.object.customer.name') || 'Customer'
fullNameOf(obj) ==
    IF ~obj.hasName \/ obj.name = <<>> THEN CustomerText ELSE obj.name

\* nameParts[0] || 'Customer'
firstNameOf(nameParts) ==
    IF nameParts[1] = <<>> THEN CustomerText ELSE nameParts[1]

\* a last name that keeps the second piece of the name only
lastNameSecondPieceOnly(nameParts) ==
    IF Len(nameParts) >= 2 THEN nameParts[2] ELSE <<>>

\* nameParts.slice(1).join(' ') || ''
lastNameOf(nameParts) == JoinWithSpace(Tail(nameParts))

(***************************************************************************)
(* (amountInCents / 100).toFixed(2).  An amount is off cents, on top of    *)
(* 2^46 * 100 cents when big is set (an integer below 2^53, which a double *)
(* holds exactly).  The quotient is the double nearest to amount / 100:    *)
(* doubles from 2^46 on are 1/64 apart, the doubles below are 1/128 apart  *)
(* or closer (1/128 is taken for all of them: a closer spacing rounds the  *)
(* same way).  The quotient is whole + frac / per.                         *)
(***************************************************************************)
\* num / den rounded to the nearest integer, a tie to the even one (IEEE 754)
RoundHalfEven(num, den) ==
    LET q == num \div den
        r == num % den
    IN  IF 2 * r > den \/ (2 * r = den /\ q % 2 = 1) THEN q + 1 ELSE q

\* num / den rounded to the nearest integer, a tie to the larger one (toFixed)
RoundHalfUp(num, den) ==
    LET q == num \div den
        r == num % den
    IN  IF 2 * r >= den THEN q + 1 ELSE q

\* the number of doubles per unit around amount / 100
DoublesPerUnit(amount) == IF amount.big THEN 64 ELSE 128

\* amountInCents / 100
DivideBy100(amount) ==
    [big |-> amount.big, whole |-> amount.off \div 100,
     frac |-> RoundHalfEven((amount.off % 100) * DoublesPerUnit(amount), 100),
     per |-> DoublesPerUnit(amount)]

\* x.toFixed(2): the integer n nearest to 100 * x, written as n div 100, '.', and
\* n mod 100 with two digits; units are on top of 2^46 when big is set
toFixed2(x) ==
    LET n == 100 * x.whole + RoundHalfUp(100 * x.frac, x.per) IN
    [big |-> x.big, units |-> n \div 100, cents |-> n % 100]

\* (getNestedValue(stripePayload, 'data.object.amount') || 0) / 100, toFixed(2)
totalPriceOf(obj) == toFixed2(DivideBy100(obj.amount))

(***************************************************************************)
(* parseInt(getNestedValue(..., 'data.object.metadata.quantity') || '1',   *)
(* 10).  metadata.quantity is absent or a string (Stripe metadata values   *)
(* are strings), a sequence of the characters "0", "1", "2" and "x".       *)
(***************************************************************************)
DigitValue(c) == IF c = "2" THEN 2 ELSE IF c = "1" THEN 1 ELSE 0

IsDigit(c) == c \in {"0", "1", "2"}

\* the value of the digits s begins with, given the value acc of those read
RECURSIVE LeadingDigits(_, _)
LeadingDigits(s, acc) ==
    IF s = <<>> \/ ~IsDigit(Head(s)) THEN acc
    ELSE LeadingDigits(Tail(s), 10 * acc + DigitValue(Head(s)))

\* parseInt(s, 10): the integer s begins with, NaN when it begins with none
parseInt(s) ==
    IF s = <<>> \/ ~IsDigit(Head(s)) THEN NaN ELSE LeadingDigits(s, 0)

quantityOf(obj) ==
    IF ~obj.hasQuantity \/ obj.quantity = <<>> THEN parseInt(<<"1">>)
    ELSE parseInt(obj.quantity)

(***************************************************************************)
(* transformStripeToShopify as a whole.  obj is stripePayload.data.object: *)
(* email is customer.email, receipt_email a field the default mappings do  *)
(* not read ("absent" for undefined).  customMappings is a set of pairs    *)
(* <<source path, target key>>.                                            *)
(***************************************************************************)
defaultMappings_R2G ==
    {<<"data.object.customer.email", "email">>,
     <<"data.object.customer.name", "customerName">>,
     <<"data.object.amount", "totalPrice">>,
     <<"data.object.currency", "currency">>,
     <<"data.object.metadata.product_id", "productId">>,
     <<"data.object.metadata.quantity", "quantity">>}

\* { ...defaultMappings, ...customMappings }: a custom pair replaces the default
\* pair of the same source path
MergeMappings(defaults, custom) ==
    {m \in defaults : \A c \in custom : c[1] # m[1]} \cup custom

\* getNestedValue(stripePayload, path) for the string-valued paths
getNestedValue_R2G(obj, path) ==
    IF path = "data.object.customer.email" THEN obj.email
    ELSE IF path = "data.object.receipt_email" THEN obj.receipt_email
    ELSE "absent"

\* getNestedValue(stripePayload, 'data.object.customer.email') || ''
emailOf(obj) ==
    LET v == getNestedValue_R2G(obj, "data.object.customer.email") IN
    IF v = "absent" THEN "" ELSE v

\* the variables object returned; the merged mappings are computed and never read
transformStripeToShopify(obj, customMappings) ==
    LET mappings == MergeMappings(defaultMappings_R2G, customMappings)
        nameParts == SplitOnSpace(fullNameOf(obj))
    IN  [email |-> emailOf(obj),
         firstName |-> firstNameOf(nameParts),
         lastName |-> lastNameOf(nameParts),
         totalPrice |-> totalPriceOf(obj),
         quantity |-> quantityOf(obj)]

(***************************************************************************)
(* transformShopifyToStripe(shopifyProduct, customMappings).  An object is *)
(* a function from the paths of its leaves (sequences of keys) to their    *)
(* values, all non-empty strings here; customMappings is the sequence of   *)
(* its entries <<shopifyPath, stripePath>>, in the order of Object.entries.*)
(***************************************************************************)
\* p is a proper prefix of path q
IsProperPrefix(p, q) == Len(p) < Len(q) /\ SubSeq(q, 1, Len(p)) = p

\* the value at path p of obj: a leaf's value, "object" for an object with
\* leaves below it (and for the root of a non-primitive), "absent" for
\* undefined.  null is the object whose root <<>> is the leaf "null",
\* undefined the one whose root is the leaf "absent".
NodeAt(obj, p) ==
    IF p \in DOMAIN obj THEN obj[p]
    ELSE IF <<>> \in DOMAIN obj THEN "absent"
    ELSE IF p = <<>> \/ \E q \in DOMAIN obj : IsProperPrefix(p, q) THEN "object"
    ELSE "absent"

\* the value the reduce of getNestedValue carries along: the value at path at
\* of obj, or undefined; threw is set once a property read has thrown
Undef == [threw |-> FALSE, def |-> FALSE, at |-> <<>>]

IsTruthy(obj, cur) == cur.def /\ NodeAt(obj, cur.at) \notin {"null", "absent", ""}

\* current[key]: a TypeError when current is null or undefined
PropertyRead(obj, cur, key) ==
    IF ~cur.def \/ NodeAt(obj, cur.at) \in {"null", "absent"}
    THEN [threw |-> TRUE, def |-> FALSE, at |-> <<>>]
    ELSE IF NodeAt(obj, Append(cur.at, key)) = "absent" THEN Undef
    ELSE [threw |-> FALSE, def |-> TRUE, at |-> Append(cur.at, key)]

\* the callback without its test of current:  current[key] !== undefined ? ...
reduceStepUnguarded(obj, cur, key) ==
    IF cur.threw THEN cur ELSE PropertyRead(obj, cur, key)

\* the callback:  current && current[key] !== undefined ? current[key] : undefined
reduceStep(obj, cur, key) ==
    IF cur.threw THEN cur
    ELSE IF ~IsTruthy(obj, cur) THEN Undef
    ELSE PropertyRead(obj, cur, key)

\* path.split('.').reduce(callback, obj), keys being the pieces of the path
RECURSIVE reduceKeys(_, _, _)
reduceKeys(obj, cur, keys) ==
    IF keys = <<>> THEN cur
    ELSE reduceKeys(obj, reduceStep(obj, cur, Head(keys)), Tail(keys))

\* getNestedValue(obj, path): whether it threw, and the value returned
getNestedValueOutcome(obj, path) ==
    LET cur == reduceKeys(obj, [threw |-> FALSE, def |-> TRUE, at |-> <<>>], path) IN
    [threw |-> cur.threw,
     value |-> IF cur.def /\ ~cur.threw THEN NodeAt(obj, cur.at) ELSE "absent"]

\* getNestedValue(obj, path), "absent" for undefined
getNestedValue(obj, path) == getNestedValueOutcome(obj, path).value

\* setNestedValue(obj, path, value), for a path that goes at most one key
\* below a leaf of obj.  A falsy leaf on the way ( !acc[part] ) is replaced by
\* a new object; when the walk ends on a non-empty string, the assignment is
\* made on a primitive and is lost (the module is not in strict mode);
\* otherwise the leaf, or the object that was at the path, is replaced by the
\* value.
setNestedValue(obj, path, value) ==
    IF \E q \in DOMAIN obj : IsProperPrefix(q, path) /\ obj[q] \notin {"null", "absent", ""}
    THEN obj
    ELSE [q \in {r \in DOMAIN obj : ~IsProperPrefix(path, r) /\ ~IsProperPrefix(r, path)}
                    \cup {path} |->
            IF q = path THEN value ELSE obj[q]]

\* the payload built before the custom mappings are applied (synced_at, the
\* time of the call, is left out)
defaultStripePayload(product) ==
    (<<"description">> :> "Product: " \o getNestedValue(product, <<"title">>))
    @@ (<<"metadata", "shopify_product_id">> :> getNestedValue(product, <<"id">>))
    @@ (<<"metadata", "product_title">> :> getNestedValue(product, <<"title">>))
    @@ (<<"metadata", "price">> :>
            (IF getNestedValue(product, <<"firstVariant", "price">>) = "absent" THEN "0.00"
             ELSE getNestedValue(product, <<"firstVariant", "price">>)))
    @@ (<<"metadata", "source">> :> "shopify_sync")

\* the loop over Object.entries(customMappings)
RECURSIVE applyMappings(_, _, _)
applyMappings(stripePayload, product, entries) ==
    IF entries = <<>> THEN stripePayload
    ELSE LET value == getNestedValue(product, Head(entries)[1]) IN
         applyMappings(IF value # "absent"
                       THEN setNestedValue(stripePayload, Head(entries)[2], value)
                       ELSE stripePayload,
                       product, Tail(entries))

transformShopifyToStripe(product, customMappings) ==
    applyMappings(defaultStripePayload(product), product, customMappings)

(***************************************************************************)
(* The request executeRest puts on the wire for a method and a payload (an *)
(* object as above, whose leaves may also be "null").  A form-encoded body *)
(* and a query string are sets of pairs <<key, value>>.                    *)
(***************************************************************************)
\* the key of a leaf: `${key}[${nestedKey}]` at each level below the first
RECURSIVE nestedKey(_, _)
nestedKey(key, rest) ==
    IF rest = <<>> THEN key
    ELSE nestedKey(key \o "[" \o Head(rest) \o "]", Tail(rest))

\* encodeStripePayload(payload): addParam skips null and undefined values
encodeStripePayload(obj) ==
    {<<nestedKey(Head(q), Tail(q)), obj[q]>> : q \in {r \in DOMAIN obj : obj[r] \notin {"null", "absent"}}}

\* new URLSearchParams(flattenObject(payload)): a null leaf is kept, as 'null'
flattenObject(obj) ==
    {<<nestedKey(Head(q), Tail(q)), obj[q]>> : q \in DOMAIN obj}

\* the options and the endpoint handed to fetch
executeRestRequest(method, obj) ==
    [method |-> method,
     hasBody |-> method \in {"POST", "PUT", "PATCH"},
     body |-> IF method \in {"POST", "PUT", "PATCH"} THEN encodeStripePayload(obj) ELSE {},
     query |-> IF method = "GET" /\ DOMAIN obj # {} THEN flattenObject(obj) ELSE {}]

(***************************************************************************)
(* What the GraphQL target can answer to the orderCreate mutation: as the  *)
(* source's answers, with the userErrors of data.orderCreate (absent when  *)
(* there is no data).                                                      *)
(***************************************************************************)
TargetBody(errors, hasData, userErrors) ==
    [net |-> FALSE, status |-> 200, json |-> TRUE, errors |-> errors, hasData |-> hasData,
     userErrors |-> userErrors]

\* executeGraphQL that lets a body with data pass whatever its errors list
executeGraphQLErrorsIgnored(cfg, r) ==
    IF ~cfg.targetAuth THEN [ok |-> FALSE, err |-> PlainError]
    ELSE IF r.net THEN [ok |-> FALSE, err |-> PlainError]
    ELSE IF ~ResponseOk(r) THEN [ok |-> FALSE, err |-> PlainError]
    ELSE IF ~r.json THEN [ok |-> FALSE, err |-> PlainError]
    ELSE IF Len(r.errors) > 0 /\ ~r.hasData THEN [ok |-> FALSE, err |-> GraphQLError(r.errors)]
    ELSE IF r.hasData /\ Len(r.userErrors) > 0
        THEN [ok |-> FALSE, err |-> GraphQLError(r.userErrors)]
    ELSE [ok |-> TRUE, err |-> NoError]

\* executeGraphQL of restToGraphQLAdapter.js: [ok, err]; on ok the value
\* returned is result.data
executeGraphQL_R2G(cfg, r) ==
    IF ~cfg.targetAuth THEN [ok |-> FALSE, err |-> PlainError]
    ELSE IF r.net THEN [ok |-> FALSE, err |-> PlainError]
    ELSE IF ~ResponseOk(r) THEN [ok |-> FALSE, err |-> PlainError]
    ELSE IF ~r.json THEN [ok |-> FALSE, err |-> PlainError]
    ELSE IF Len(r.errors) > 0 THEN [ok |-> FALSE, err |-> GraphQLError(r.errors)]
    ELSE IF r.hasData /\ Len(r.userErrors) > 0
        THEN [ok |-> FALSE, err |-> GraphQLError(r.userErrors)]
    ELSE [ok |-> TRUE, err |-> NoError]

\* the envelope restToGraphQLAdapter returns on success:  data: result
SuccessEnvelope_R2G(r) ==
    [returned |-> TRUE, success |-> TRUE, hasData |-> r.hasData, processed |-> 0,
     results |-> <<>>, hasError |-> FALSE, error |-> NoError, hasStack |-> FALSE]

\* handleError(error) of restToGraphQLAdapter.js under NODE_ENV env
handleError_R2G(err, env) ==
    [returned |-> TRUE, success |-> FALSE, hasData |-> FALSE, processed |-> 0,
     results |-> <<>>, hasError |-> TRUE, error |-> err, hasStack |-> (env = "development")]

\* the statements of restToGraphQLAdapter that its try block encloses
R2GTryCovers(step) == step \in {"config", "validate", "transform", "mutation"}

(***************************************************************************)
(* State.                                                                  *)
(***************************************************************************)
VARIABLES
    adapter,    \* the function called: "g2r", "r2g", "retry", "helper" or "store"
    config,     \* the caller's config
    payload,    \* the REST payload handed to restToGraphQLAdapter
    target,     \* the GraphQL target's answer to the mutation
    source,     \* the GraphQL source's answer to the query
    remote,     \* remote[k]: the REST remote's answer to the requests of item k
    pc,         \* where the adapter called stands
    items,      \* parsedData
    i,          \* processBatch's loop variable
    tasks,      \* the executeRestWithRetry calls made so far, by item index
    promises,   \* batchPromises of the items started so far, by item index
    results,    \* processBatch's results array
    groups,     \* the sizes of the batches formed so far
    order,      \* the items of the latest batch, in the order their promises settled
    sleeps,     \* the number of  await sleep(delayBetweenBatches)  so far
    queries,    \* the number of GraphQL requests put on the wire
    envelope,   \* what the adapter returned
    escaped,    \* an exception left the adapter
    args,       \* the arguments of a helper function called on its own
    returned,   \* what that call returned
    nodeEnv,    \* process.env.NODE_ENV
    store       \* the state of the front end's protocol store

vars == <<adapter, config, payload, target, source, remote, pc, items, i, tasks, promises, results, groups, order,
          sleeps, queries, envelope, escaped, args, returned, nodeEnv, store>>

\* no helper function called on its own
NoArgs == [fn |-> "none"]

NoReturn == [set |-> FALSE]

g2rInputs == <<adapter, config, payload, target, source, remote, args, returned, nodeEnv, store>>

\* the same without the config
otherInputs == <<adapter, payload, target, source, remote, args, returned, nodeEnv, store>>

NoTarget == TargetBody(<<>>, FALSE, <<>>)

g2rRun == <<pc, items, i, promises, results, groups, order, sleeps, queries, envelope,
            escaped>>

(***************************************************************************)
(* The protocol store of the front end (useProtocolStore): the protocols   *)
(* selected, in the order of selection, and the input method of the        *)
(* configuration form (the four text fields of the form are left out).     *)
(***************************************************************************)
Protocols == {"REST", "GraphQL", "gRPC", "SOAP", "WebSocket"}

InputMethods == {"documentation", "natural-language"}

NewStore == [selectedProtocols |-> <<>>, inputMethod |-> "natural-language"]

\* selectedProtocols.includes(protocol)
Includes(selected, protocol) == \E n \in DOMAIN selected : selected[n] = protocol

\* selectedProtocols.filter(p => p !== protocol)
RECURSIVE Without(_, _)
Without(selected, protocol) ==
    IF selected = <<>> THEN <<>>
    ELSE (IF Head(selected) = protocol THEN <<>> ELSE <<Head(selected)>>)
         \o Without(Tail(selected), protocol)

\* selectProtocol without its test of the length
selectProtocolUnbounded(st, protocol) ==
    IF Includes(st.selectedProtocols, protocol) THEN st
    ELSE [st EXCEPT !.selectedProtocols = Append(@, protocol)]

selectProtocol(st, protocol) ==
    IF Includes(st.selectedProtocols, protocol) THEN st
    ELSE IF Len(st.selectedProtocols) >= 2 THEN st
    ELSE [st EXCEPT !.selectedProtocols = Append(@, protocol)]

deselectProtocol(st, protocol) ==
    [st EXCEPT !.selectedProtocols = Without(@, protocol)]

clearSelection(st) == [st EXCEPT !.selectedProtocols = <<>>]

canSelectMore(st) == Len(st.selectedProtocols) < 2

setInputMethod(st, method) == [st EXCEPT !.inputMethod = method]

reset(st) == NewStore

(***************************************************************************)
(* A standalone call executeRestWithRetry(endpoint, method, payload, auth, *)
(* maxRetries).                                                            *)
(***************************************************************************)
IdleRun ==
    /\ pc = "idle" /\ items = <<>> /\ i = 0 /\ promises = <<>> /\ results = <<>>
    /\ groups = <<>> /\ order = <<>> /\ sleeps = 0 /\ queries = 0
    /\ envelope = NoEnvelope /\ escaped = FALSE

RetryInit ==
    /\ adapter = "retry"
    /\ config = HealthyConfig(FALSE, 0)
    /\ payload = NullPayload
    /\ target = NoTarget
    /\ source = SourceData("object", <<>>)
    /\ remote = <<>>
    /\ IdleRun
    /\ args = NoArgs /\ returned = NoReturn
    /\ nodeEnv = "unset"
    /\ store = NewStore
    /\ \E m \in 1..MaxAttempts, a \in BOOLEAN :
        tasks = <<NewTask(m, a)>>

RetryCall ==
    /\ pc = "idle"
    /\ tasks[1].st = "idle"
    /\ tasks' = [tasks EXCEPT ![1] = Attempt(@)]
    /\ UNCHANGED <<g2rInputs, g2rRun>>

RetrySettle ==
    /\ pc = "idle"
    /\ tasks[1].st = "fetching"
    /\ \E r \in RestResponses, j \in Jitters :
        tasks' = [tasks EXCEPT ![1] = Settle(@, r, j)]
    /\ UNCHANGED <<g2rInputs, g2rRun>>

RetryWake ==
    /\ pc = "idle"
    /\ tasks[1].st = "sleeping"
    /\ tasks' = [tasks EXCEPT ![1] = Wake(@)]
    /\ UNCHANGED <<g2rInputs, g2rRun>>

RetryNext == RetryCall \/ RetrySettle \/ RetryWake

SpecRetry == RetryInit /\ [][RetryNext]_vars

(***************************************************************************)
(* graphqlToRestAdapter(graphqlQuery, variables, config).                  *)
(***************************************************************************)
\* largest number of items of a run in which nothing fails
MaxItems == 7
\* how many groups and sleeps beyond one per item the observer counts
MaxExtraGroups == 3

\* the most groups and sleeps the observer counts for n items
MaxCounted(n) == n + MaxExtraGroups
\* largest number of items of a run in which any item may fail
MaxFaultItems == 3
\* largest configured batchSize
MaxBatch == 3

RestOk ==
    [net |-> FALSE, status |-> 200, json |-> TRUE, header |-> Undefined, body |-> "object"]

Rest404 ==
    [net |-> FALSE, status |-> 404, json |-> TRUE, header |-> Undefined, body |-> "object"]

Rest503 ==
    [net |-> FALSE, status |-> 503, json |-> TRUE, header |-> Undefined, body |-> "object"]

\* 200 with the body  null
RestNullBody ==
    [net |-> FALSE, status |-> 200, json |-> TRUE, header |-> Undefined, body |-> "null"]

\* the answers the REST remote gives to an item of a batch (one per item, the
\* same to each of its requests)
ItemResponses == {RestOk, Rest404, Rest503}

\* the jitter Math.random() * 1000 gives in the runs of the adapter (the delay
\* of a backoff changes nothing else there)
ItemJitters == {0}

SeqsOf(S, n) == [1..n -> S]

SeqsUpTo(S, n) == UNION {SeqsOf(S, m) : m \in 0..n}

\* runs in which nothing fails
HealthyInit ==
    /\ \E b \in 0..MaxBatch : config = HealthyConfig(TRUE, b)
    /\ \E n \in 0..MaxItems, sh \in {"products", "edges"} :
        /\ source = SourceData(sh, [k \in 1..n |-> "product"])
        /\ remote = [k \in 1..n |-> RestOk]

\* runs in which every item may be null and every item's requests may fail
FaultyItemsInit ==
    /\ \E b \in 0..MaxBatch, m \in BOOLEAN : config = HealthyConfig(m, b)
    /\ \E sh \in {"products", "edges"}, ns \in SeqsUpTo({"product", "null"}, MaxFaultItems) :
        /\ source = SourceData(sh, ns)
        /\ remote \in SeqsOf(ItemResponses, Len(ns))

\* runs with a defective config or a source query that fails
DefectConfigs ==
    {[HealthyConfig(m, 1) EXCEPT !.present = FALSE] : m \in {TRUE}}
    \cup {[HealthyConfig(m, 1) EXCEPT !.sourceAuth = FALSE] : m \in {TRUE}}
    \cup {[HealthyConfig(m, 1) EXCEPT !.targetAuth = FALSE] : m \in BOOLEAN}
    \cup {[HealthyConfig(m, 1) EXCEPT !.mappingsNull = TRUE] : m \in BOOLEAN}

TwoProducts == <<"product", "product">>

FailingSources ==
    {[SourceData("products", TwoProducts) EXCEPT !.net = TRUE, !.status = 0, !.json = FALSE]}
    \cup {[SourceData("products", TwoProducts) EXCEPT !.status = s] : s \in {401, 500}}
    \cup {[SourceData("products", TwoProducts) EXCEPT !.json = FALSE]}
    \cup {SourceBody(<<"e1">>, d, "products", TwoProducts) : d \in BOOLEAN}
    \cup {SourceBody(<<>>, FALSE, "products", TwoProducts)}

DefectInit ==
    /\ \/ config \in DefectConfigs /\ source \in {SourceData("products", TwoProducts), SourceData("object", <<>>)}
       \/ (\E m \in BOOLEAN : config = HealthyConfig(m, 1)) /\ source \in FailingSources
       \/ (\E m \in BOOLEAN : config = HealthyConfig(m, 1)) /\ source = SourceData("object", <<>>)
    /\ remote \in {[k \in 1..2 |-> r] : r \in {RestOk, Rest503}}

\* runs in which the REST remote answers 200 with an empty (null) body
NullBodyInit ==
    /\ \E b \in {0, 1}, m \in BOOLEAN : config = HealthyConfig(m, b)
    /\ source = SourceData("products", TwoProducts)
    /\ remote \in SeqsOf({RestOk, RestNullBody}, 2) \ {[k \in 1..2 |-> RestOk]}

G2RInit ==
    /\ adapter = "g2r"
    /\ HealthyInit \/ FaultyItemsInit \/ DefectInit \/ NullBodyInit
    /\ payload = NullPayload
    /\ target = NoTarget
    /\ pc = "start" /\ items = <<>> /\ i = 0 /\ tasks = <<>> /\ promises = <<>>
    /\ results = <<>> /\ groups = <<>> /\ order = <<>> /\ sleeps = 0 /\ queries = 0
    /\ envelope = NoEnvelope /\ escaped = FALSE
    /\ args = NoArgs /\ returned = NoReturn
    /\ nodeEnv \in NodeEnvs
    /\ store = NewStore

\* an error raised by a statement of graphqlToRestAdapter: caught and turned
\* into the envelope when the try block encloses the statement
Raise(step, err) ==
    /\ pc' = "done"
    /\ IF G2RTryCovers(step)
       THEN envelope' = handleError_G2R(err, nodeEnv) /\ escaped' = FALSE
       ELSE envelope' = NoEnvelope /\ escaped' = TRUE

Return(rs) ==
    /\ pc' = "done"
    /\ envelope' = SuccessEnvelope(rs)
    /\ escaped' = FALSE

\* the call: config.sourceEndpoint is read and executeGraphQL runs up to its
\* await fetch(...)
Call ==
    /\ pc = "start"
    /\ IF ~config.present
       THEN Raise("config", TypeError) /\ queries' = queries
       ELSE IF ~config.sourceAuth
       THEN Raise("query", executeGraphQL_G2R(config, source).err) /\ queries' = queries
       ELSE pc' = "query" /\ queries' = queries + 1 /\ UNCHANGED <<envelope, escaped>>
    /\ UNCHANGED <<g2rInputs, items, i, tasks, promises, results, groups, order, sleeps>>

\* the items of batch g whose promise is settled as soon as the batch is started,
\* in index order
RECURSIVE SettledAtStart(_, _, _)
SettledAtStart(ps, lo, hi) ==
    IF lo > hi THEN <<>>
    ELSE (IF ps[lo].st \in {"fulfilled", "rejected"} THEN <<lo>> ELSE <<>>)
         \o SettledAtStart(ps, lo + 1, hi)

\* processBatch starts the batch at offset i0: every callback of the batch runs
\* up to its first await.  A loop index below -items.length is kept as
\* -items.length: from there down every slice is empty and every test of the
\* loop has the same result, whatever the index.
StartBatch(its, i0) ==
    LET g == GroupOf(i0, BatchSizeOf(config), Len(its)) IN
    /\ i' = Max(i0, 0 - Len(its))
    /\ tasks' = [k \in 1..Len(its) |->
                    IF k \in g THEN LaunchTask(its[k], config)
                    ELSE IF k \in DOMAIN tasks THEN tasks[k]
                    ELSE NewTask(DefaultMaxRetries, config.targetAuth)]
    /\ promises' = [k \in 1..Len(its) |->
                    IF k \in g THEN LaunchPromise(k, its[k], config)
                    ELSE IF k \in DOMAIN promises THEN promises[k]
                    ELSE NoPromise]
    /\ groups' = IF Len(groups) < MaxCounted(Len(its))
                 THEN Append(groups, Cardinality(g))
                 ELSE groups
    /\ order' = SettledAtStart(promises', SliceIndex(i0, Len(its)) + 1,
                                SliceIndex(i0 + BatchSizeOf(config), Len(its)))
    /\ pc' = "batch"

\* a processBatch that writes the defaults it applies back into the config
processBatchConfigDefaulted(cfg) == [cfg EXCEPT !.batchSize = BatchSizeOf(cfg)]

\* the config as processBatch leaves it: batchSize and batchDelay are read
\* into locals, with their defaults, and no field of config is written
processBatchConfig(cfg) == cfg

\* the source's answer arrives: executeGraphQL ends, the data is parsed, and
\* the first batch (or the single item) is started
SourceSettles ==
    /\ pc = "query"
    /\ LET out == executeGraphQL_G2R(config, source)
           parsed == parseGraphQLResponse(source)
       IN  IF ~out.ok
           THEN Raise("query", out.err) /\ UNCHANGED <<items, i, tasks, promises, groups, order>>
           ELSE IF ~parsed.ok
           THEN Raise("parse", parsed.err) /\ UNCHANGED <<items, i, tasks, promises, groups, order>>
           ELSE /\ items' = parsed.items
                /\ IF config.batchMode
                   THEN IF Len(parsed.items) = 0
                        THEN Return(<<>>) /\ UNCHANGED <<i, tasks, promises, groups, order>>
                        ELSE StartBatch(parsed.items, 0) /\ UNCHANGED <<envelope, escaped>>
                   ELSE IF config.mappingsNull
                        THEN Raise("single", TypeError) /\ UNCHANGED <<i, tasks, promises, groups, order>>
                        ELSE /\ tasks' = <<Attempt(NewTask(DefaultMaxRetries, config.targetAuth))>>
                             /\ pc' = "single"
                             /\ UNCHANGED <<i, promises, groups, order, envelope, escaped>>
    /\ config' = IF /\ executeGraphQL_G2R(config, source).ok
                    /\ parseGraphQLResponse(source).ok
                    /\ config.batchMode
                 THEN processBatchConfig(config)
                 ELSE config
    /\ UNCHANGED <<otherInputs, results, sleeps, queries>>

\* a continuation of the adapter is ready to run: it runs before any other
\* response or timer is handled
\* a join that lets the loop go on as soon as one promise of the batch is settled
BatchSettledAny ==
    LET g == GroupOf(i, BatchSizeOf(config), Len(items)) IN
    /\ pc = "batch"
    /\ \E k \in g : promises[k].st \in {"fulfilled", "rejected"}

BatchSettled ==
    LET g == GroupOf(i, BatchSizeOf(config), Len(items)) IN
    /\ pc = "batch"
    /\ AllRejected(promises, g) \/ AllFulfilled(promises, g)

SingleSettled == pc = "single" /\ TaskDone(tasks[1])

ContinuationReady == BatchSettled \/ SingleSettled

InLatestBatch(k) ==
    k \in DOMAIN promises /\ k \in GroupOf(i, BatchSizeOf(config), Len(items))

\* every request answered as the first item's requests are
RemoteOfShared(k) == IF 1 \in DOMAIN remote THEN remote[1] ELSE RestOk

\* the answer the REST remote gives to a request of item k
RemoteOf(k) == IF k \in DOMAIN remote THEN remote[k] ELSE RestOk

\* a REST request of item k settles
ItemSettle(k) ==
    /\ pc \in {"batch", "pause", "single", "done"}
    /\ ~ContinuationReady
    /\ tasks[k].st = "fetching"
    /\ \E j \in ItemJitters :
        LET t == Settle(tasks[k], RemoteOf(k), j) IN
        /\ tasks' = [tasks EXCEPT ![k] = t]
        /\ promises' = IF k \in DOMAIN promises
                       THEN [promises EXCEPT ![k] = ItemPromise(k, items[k], t)]
                       ELSE promises
        /\ order' = IF InLatestBatch(k) /\ TaskDone(t) THEN Append(order, k) ELSE order
    /\ UNCHANGED <<g2rInputs, pc, items, i, results, groups, sleeps, queries, envelope, escaped>>

\* a backoff timer of item k fires
ItemWake(k) ==
    /\ pc \in {"batch", "pause", "single", "done"}
    /\ ~ContinuationReady
    /\ tasks[k].st = "sleeping"
    /\ LET t == Wake(tasks[k]) IN
        /\ tasks' = [tasks EXCEPT ![k] = t]
        /\ promises' = IF k \in DOMAIN promises
                       THEN [promises EXCEPT ![k] = ItemPromise(k, items[k], t)]
                       ELSE promises
        /\ order' = IF InLatestBatch(k) /\ TaskDone(t) THEN Append(order, k) ELSE order
    /\ UNCHANGED <<g2rInputs, pc, items, i, results, groups, sleeps, queries, envelope, escaped>>

\* the outcomes pushed as the promises settle instead
PushResultsAsSettled(rs, ps, g) ==
    rs \o [n \in 1..Len(order) |-> ps[order[n]].value]

\* results.push(...batchResults)
PushResults(rs, ps, g) ==
    IF g = {} THEN rs
    ELSE rs \o AllValues(ps, CHOOSE lo \in g : \A k \in g : lo <= k,
                             CHOOSE hi \in g : \A k \in g : hi >= k)

\* the test that sleeps after the last batch too when it is full
MoreBatchesInclusive(i0, b, n) == i0 + b <= n

\* if (i + batchSize < items.length)
MoreBatches(i0, b, n) == i0 + b < n

\* await Promise.all(batchPromises)  settles: the batch's outcomes are pushed
\* and the loop goes on, or the rejection leaves processBatch
Join ==
    LET b == BatchSizeOf(config)
        g == GroupOf(i, b, Len(items))
    IN
    /\ BatchSettled
    /\ IF AllRejected(promises, g)
       THEN Raise("batch", TypeError) /\ UNCHANGED <<results, sleeps>>
       ELSE /\ results' = PushResults(results, promises, g)
            /\ IF MoreBatches(i, b, Len(items))
               THEN /\ sleeps' = Min(sleeps + 1, MaxCounted(Len(items)))
                    /\ pc' = "pause"
                    /\ UNCHANGED <<envelope, escaped>>
               ELSE /\ sleeps' = sleeps
                    /\ Return(results')
    /\ UNCHANGED <<g2rInputs, items, i, tasks, promises, groups, order, queries>>

\* the sleep between two batches ends: the next batch is started
PauseElapses ==
    /\ pc = "pause"
    /\ StartBatch(items, i + BatchSizeOf(config))
    /\ UNCHANGED <<g2rInputs, items, results, sleeps, queries, envelope, escaped>>

\* await executeRestWithRetry(...)  of the single-item branch settles
SingleJoin ==
    /\ SingleSettled
    /\ IF tasks[1].st = "returned"
       THEN Return(<<SuccessOutcome(1, ResultOf(tasks[1]))>>)
       ELSE Raise("single", tasks[1].thrown)
    /\ UNCHANGED <<g2rInputs, items, i, tasks, promises, results, groups, order, sleeps,
                   queries>>

(***************************************************************************)
(* restToGraphQLAdapter(restPayload, config).                              *)
(***************************************************************************)
R2GConfigs ==
    {HealthyConfig(TRUE, 0),
     [HealthyConfig(TRUE, 0) EXCEPT !.present = FALSE],
     [HealthyConfig(TRUE, 0) EXCEPT !.targetAuth = FALSE]}

TargetResponses ==
    {[TargetBody(<<>>, FALSE, <<>>) EXCEPT !.net = TRUE, !.status = 0, !.json = FALSE]}
    \cup {[TargetBody(<<>>, FALSE, <<>>) EXCEPT !.status = s] : s \in {401, 500}}
    \cup {[TargetBody(<<"e1">>, FALSE, <<>>) EXCEPT !.status = 500]}
    \cup {[TargetBody(<<>>, FALSE, <<>>) EXCEPT !.json = FALSE]}
    \cup {TargetBody(e, TRUE, u) : e \in {<<>>, <<"e1">>}, u \in {<<>>, <<"u1">>}}
    \cup {TargetBody(e, FALSE, <<>>) : e \in {<<>>, <<"e1">>}}

R2GInit ==
    /\ adapter = "r2g"
    /\ config \in R2GConfigs
    /\ payload \in Payloads
    /\ target \in TargetResponses
    /\ source = SourceData("object", <<>>)
    /\ remote = <<>>
    /\ pc = "r2g" /\ items = <<>> /\ i = 0 /\ tasks = <<>> /\ promises = <<>>
    /\ results = <<>> /\ groups = <<>> /\ order = <<>> /\ sleeps = 0 /\ queries = 0
    /\ envelope = NoEnvelope /\ escaped = FALSE
    /\ args = NoArgs /\ returned = NoReturn
    /\ nodeEnv \in NodeEnvs
    /\ store = NewStore

R2GRaise(step, err) ==
    /\ pc' = "done"
    /\ IF R2GTryCovers(step)
       THEN envelope' = handleError_R2G(err, nodeEnv) /\ escaped' = FALSE
       ELSE envelope' = NoEnvelope /\ escaped' = TRUE

\* the call: validatePayload, transformStripeToShopify, buildShopifyOrderMutation
\* and executeGraphQL up to its  await fetch(...)
R2GCall ==
    /\ pc = "r2g"
    /\ IF ~config.present
       THEN R2GRaise("config", TypeError) /\ queries' = queries
       ELSE IF validatePayload(payload) # NoError
       THEN R2GRaise("validate", validatePayload(payload)) /\ queries' = queries
       ELSE IF TransformStripeThrows(payload)
       THEN R2GRaise("transform", TypeError) /\ queries' = queries
       ELSE IF ~config.targetAuth
       THEN R2GRaise("mutation", executeGraphQL_R2G(config, target).err) /\ queries' = queries
       ELSE pc' = "mutation" /\ queries' = queries + 1 /\ UNCHANGED <<envelope, escaped>>
    /\ UNCHANGED <<g2rInputs, items, i, tasks, promises, results, groups, order, sleeps>>

\* the target's answer arrives: executeGraphQL ends and the envelope is returned
TargetSettles ==
    /\ pc = "mutation"
    /\ LET out == executeGraphQL_R2G(config, target) IN
        IF out.ok
        THEN pc' = "done" /\ envelope' = SuccessEnvelope_R2G(target) /\ escaped' = FALSE
        ELSE R2GRaise("mutation", out.err)
    /\ UNCHANGED <<g2rInputs, items, i, tasks, promises, results, groups, order, sleeps,
                   queries>>

G2RNext ==
    \/ Call
    \/ SourceSettles
    \/ \E k \in DOMAIN tasks : ItemSettle(k)
    \/ \E k \in DOMAIN tasks : ItemWake(k)
    \/ Join
    \/ PauseElapses
    \/ SingleJoin

R2GNext == R2GCall \/ TargetSettles

Init == G2RInit \/ R2GInit

Next == G2RNext \/ R2GNext

Spec == Init /\ [][Next]_vars

(***************************************************************************)
(* Properties of the retry loop.                                           *)
(***************************************************************************)
\* the error executeRest raises for an HTTP 503 answer to attempt at
Error503(at) == RestAPIError(503, at)

AllAttemptsFailed503(t) ==
    /\ t.hist # <<>>
    /\ \A k \in DOMAIN t.hist : executeRest(t.hist[k], k - 1) = [ok |-> FALSE, err |-> Error503(k - 1)]

\* C1: a call whose every attempt fails with a status-503 error invokes
\* executeRest exactly maxRetries times and then throws the error of the last
\* attempt, unchanged.
C1_ExhaustedAfterMaxAttempts ==
    \A k \in DOMAIN tasks :
        LET t == tasks[k] IN
        AllAttemptsFailed503(t) =>
            /\ t.calls <= t.maxRetries
            /\ t.st # "returned"
            /\ TaskDone(t) =>
                /\ t.calls = t.maxRetries
                /\ Len(t.hist) = t.maxRetries
                /\ t.thrown = Error503(t.maxRetries - 1)

C1_Witness ==
    /\ pc = "idle"
    /\ tasks[1].maxRetries = DefaultMaxRetries
    /\ AllAttemptsFailed503(tasks[1])
    /\ tasks[1].st = "thrown"
    /\ tasks[1].calls = DefaultMaxRetries

\* the errors the retry policy is said to retry
IsRetryable(err) == err.name = "RateLimitError" \/ err.statusCode >= 500

\* C2: an attempt is followed by another one only after a RateLimitError or an
\* error of status >= 500; any other error is thrown by the attempt that
\* raised it, with no backoff wait and no further call after it.
C2_RetryOnlyRetryable ==
    \A k \in DOMAIN tasks :
        LET t == tasks[k] IN
        /\ \A n \in DOMAIN t.hist :
                n < t.calls => IsRetryable(executeRest(t.hist[n], n - 1).err)
        /\ (t.st = "sleeping") => IsRetryable(t.lastError)
        /\ (t.st = "thrown" /\ ~IsRetryable(t.thrown)) =>
                /\ t.thrown.at = t.attempt
                /\ t.calls = t.attempt + 1
                /\ t.waits = t.attempt
                /\ t.requests <= t.calls

C2_Witness ==
    /\ pc = "idle"
    /\ tasks[1].st = "thrown"
    /\ tasks[1].thrown = RestAPIError(404, 0)
    /\ tasks[1].calls = 1
    /\ tasks[1].waits = 0

(***************************************************************************)
(* Properties of the batch coordinator.                                    *)
(***************************************************************************)
CeilDiv(n, b) == (n + b - 1) \div b

\* the sizes of the first m of the batches n items fall into, b at a time
ExpectedGroups(n, b, m) ==
    [j \in 1..m |-> IF j * b <= n THEN b ELSE n - (j - 1) * b]

\* a run of graphqlToRestAdapter, a run of restToGraphQLAdapter
IsG2R == adapter = "g2r"

IsR2G == adapter = "r2g"

\* processBatch ran to its return statement
BatchReturned == IsG2R /\ pc = "done" /\ config.batchMode /\ envelope.success

\* C3: n items fall into ceil(n/b) contiguous batches in input order, each of
\* size b but possibly the last, and processBatch sleeps ceil(n/b) - 1 times
\* (0 for no item), each time between the end of a batch and the start of the
\* next one: not before the first batch, not after the last.
C3_GroupsAndSleeps ==
    LET n == Len(items)
        b == BatchSizeOf(config)
    IN  IsG2R /\ config.batchMode /\ pc \in {"batch", "pause", "done"} =>
        /\ Len(groups) <= CeilDiv(n, b)
        /\ groups = ExpectedGroups(n, b, Len(groups))
        /\ pc \in {"batch", "pause"} =>
            /\ i = (Len(groups) - 1) * b
            /\ \A k \in DOMAIN promises : promises[k].st # "none" <=> k <= i + b
        /\ pc = "batch" => sleeps = Len(groups) - 1
        /\ pc = "pause" =>
            /\ sleeps = Len(groups)
            /\ Len(groups) < CeilDiv(n, b)
            /\ \A k \in DOMAIN promises : k <= i + b => promises[k].st = "fulfilled"
        /\ BatchReturned =>
            /\ Len(groups) = CeilDiv(n, b)
            /\ sleeps = (IF n = 0 THEN 0 ELSE CeilDiv(n, b) - 1)

C3_Witness ==
    /\ BatchReturned
    /\ Len(items) = 7
    /\ BatchSizeOf(config) = 3
    /\ groups = <<3, 3, 1>>
    /\ sleeps = 2

\* item k fails: its mapping step or its REST call throws
ItemFails(k) ==
    \/ items[k] = "null"
    \/ config.mappingsNull
    \/ ~config.targetAuth
    \/ remote[k] # RestOk

\* C4: whichever items fail, processBatch returns one outcome per input item,
\* with success false exactly for the failing ones: no failure aborts the batch.
C4_FailureIsolated ==
    (IsG2R /\ pc = "done" /\ config.batchMode /\ groups # <<>>) =>
        /\ envelope.success
        /\ Len(envelope.results) = Len(items)
        /\ \A k \in DOMAIN envelope.results : envelope.results[k].success <=> ~ItemFails(k)

\* C5: the outcome at index k of the results is the outcome of input item k,
\* in whatever order the promises of a batch settle.
C5_InputOrder ==
    /\ \A k \in DOMAIN results : results[k].of = k
    /\ BatchReturned =>
        /\ Len(envelope.results) = Len(items)
        /\ \A k \in DOMAIN envelope.results : envelope.results[k].of = k

C5_Witness ==
    /\ BatchReturned
    /\ Len(order) >= 2
    /\ order[1] > order[2]
    /\ \A k \in DOMAIN envelope.results : envelope.results[k].of = k

(***************************************************************************)
(* Properties of the two orchestrators.                                    *)
(***************************************************************************)
\* the remote answered, and its answer is a failure: a fetch that rejects, a
\* status outside 2xx, a body that does not parse, a non-empty errors list
AnswerFails(r) == r.net \/ ~ResponseOk(r) \/ ~r.json \/ Len(r.errors) > 0

\* the single-item branch's REST call fails for good
SingleRestFailed ==
    IsG2R /\ ~config.batchMode /\ tasks # <<>> /\ tasks[1].st = "thrown"

\* C6: no exception leaves either orchestrator: the call ends with a returned
\* envelope, and with success false and an error when the remote's answer is a
\* failure or the call failed otherwise.
C6_NeverThrows ==
    (IsG2R \/ IsR2G) =>
        /\ ~escaped
        /\ pc = "done" =>
            /\ envelope.returned
            /\ ~envelope.success => envelope.hasError /\ envelope.error # NoError
            /\ (IsG2R /\ queries = 1 /\ AnswerFails(source)) => ~envelope.success
            /\ (IsR2G /\ queries = 1 /\ AnswerFails(target)) => ~envelope.success
            /\ ~config.present => ~envelope.success
            /\ SingleRestFailed => ~envelope.success

C6_Witness ==
    /\ IsG2R
    /\ pc = "done"
    /\ source.hasData = FALSE
    /\ queries = 1
    /\ ~AnswerFails(source)
    /\ envelope.returned
    /\ envelope.error = TypeError

\* C7: a returned envelope has data exactly when success is true, and an error
\* exactly when success is false.
C7_DataIffSuccess ==
    envelope.returned =>
        /\ envelope.hasData <=> envelope.success
        /\ envelope.hasError <=> ~envelope.success

\* the answer was decoded: the request was made and a 2xx body parsed
Decoded(r) == queries = 1 /\ pc = "done" /\ ~r.net /\ ResponseOk(r) /\ r.json

\* C8: a decoded body with a non-empty top-level errors list, or (REST ->
\* GraphQL) a non-empty orderCreate.userErrors list, gives success false with
\* a GraphQLError carrying that list, whatever else the body holds.
C8_ProtocolErrorWins ==
    /\ (IsG2R /\ Decoded(source) /\ Len(source.errors) > 0) =>
        /\ ~envelope.success
        /\ envelope.error = GraphQLError(source.errors)
    /\ (IsR2G /\ Decoded(target) /\ Len(target.errors) > 0) =>
        /\ ~envelope.success
        /\ envelope.error = GraphQLError(target.errors)
    /\ (IsR2G /\ Decoded(target) /\ Len(target.errors) = 0 /\ target.hasData
            /\ Len(target.userErrors) > 0) =>
        /\ ~envelope.success
        /\ envelope.error = GraphQLError(target.userErrors)

C8_Witness ==
    /\ IsR2G
    /\ Decoded(target)
    /\ target.hasData
    /\ target.errors = <<"e1">>
    /\ envelope.returned
    /\ envelope.error = GraphQLError(<<"e1">>)

\* the required-field contract of the REST -> GraphQL direction
MeetsContract(p) ==
    /\ p.isObject
    /\ p.type = SupportedEvent
    /\ p.data = "object"
    /\ p.amount \notin {Undefined, 0}
    /\ p.currency # "absent"
    /\ p.customer = "a@b.com"

\* field names something the payload lacks
Offending(p, field) ==
    \/ field = "payload" /\ ~p.isObject
    \/ field = "type" /\ p.type # SupportedEvent
    \/ field = "data.object" /\ p.data # "object"
    \/ field = "amount" /\ p.amount \in {Undefined, 0}
    \/ field = "currency" /\ p.currency = "absent"
    \/ field = "customer.email" /\ p.customer # "a@b.com"

\* C9: restToGraphQLAdapter issues no request for a payload that fails
\* validation: a request is made only once the payload met the contract, and a
\* failed validation ends with success false and a ValidationError that names
\* an offending field.
C9_ValidateBeforeNetwork ==
    IsR2G =>
        /\ queries > 0 => MeetsContract(payload)
        /\ (pc = "done" /\ config.present /\ ~MeetsContract(payload)) =>
            /\ queries = 0
            /\ ~envelope.success
            /\ envelope.error.name = "ValidationError"
            /\ Offending(payload, envelope.error.field)

C9_Witness ==
    /\ IsR2G
    /\ pc = "done"
    /\ config.present
    /\ payload.isObject /\ payload.type = SupportedEvent /\ payload.data = "object"
    /\ payload.amount = 5000 /\ payload.currency = "usd" /\ payload.customer = "noemail"
    /\ queries = 0
    /\ envelope.error = ValidationError("customer.email")

UnsupportedEvent(p) == p.isObject /\ p.type \notin {"absent", SupportedEvent}

\* C10 as stated: an event type that is present but not the supported one ends
\* in a ValidationError whose field is 'type', whatever else the payload holds.
C10_Original ==
    (IsR2G /\ pc = "done" /\ config.present /\ UnsupportedEvent(payload)) =>
        /\ ~envelope.success
        /\ envelope.error = ValidationError("type")

\* C10, amended: such an event always ends in a ValidationError and is never
\* accepted; the field is 'type' when data.object is there and 'data.object'
\* when data or data.object is missing.
C10_UnsupportedEventRejected ==
    (IsR2G /\ UnsupportedEvent(payload)) =>
        /\ queries = 0
        /\ pc # "mutation"
        /\ (pc = "done" /\ config.present) =>
            /\ ~envelope.success
            /\ envelope.error =
                ValidationError(IF payload.data = "object" THEN "type" ELSE "data.object")

C10_Witness ==
    /\ IsR2G
    /\ pc = "done"
    /\ config.present
    /\ payload.type = "charge.failed"
    /\ payload.data = "object" /\ payload.amount = 5000 /\ payload.currency = "usd"
    /\ payload.customer = "a@b.com"
    /\ envelope.error = ValidationError("type")

(***************************************************************************)
(* Properties of executeRest's rate-limit answer and of the backoff.       *)
(***************************************************************************)
\* the latest response a call received, and whether it was an HTTP 429
LastResponse(t) == t.hist[Len(t.hist)]

Got429(t) == t.hist # <<>> /\ ~LastResponse(t).net /\ LastResponse(t).status = 429

\* the number the retry-after header carries, 5 when it is absent or unparsable
HintOr5(header) == IF header \in {Undefined, NaN} THEN DefaultRetryAfter ELSE header

\* C11: an HTTP 429 answer to executeRest is raised as a RateLimitError, never
\* as a RestAPIError, and its retryAfter is the number read from the
\* retry-after header, or 5 when the header is absent or is not a number.
C11_RateLimitErrorOf429 ==
    \A k \in DOMAIN tasks :
        Got429(tasks[k]) =>
            /\ tasks[k].lastError.name = "RateLimitError"
            /\ tasks[k].lastError.retryAfter = HintOr5(LastResponse(tasks[k]).header)

\* the retry-after header of the latest response carries a number of seconds
HasHint(t) == Got429(t) /\ LastResponse(t).header \notin {Undefined, NaN}

\* C13: a RateLimitError is retried until the attempt budget is used up (the
\* call only throws it after maxRetries calls of executeRest), and when the 429
\* answer carried a retry-after hint the wait before the next attempt lasts at
\* least the hinted number of seconds.
C13_RateLimitRetriedWithHint ==
    \A k \in DOMAIN tasks :
        /\ (Got429(tasks[k]) /\ tasks[k].st = "thrown") => tasks[k].calls = tasks[k].maxRetries
        /\ (HasHint(tasks[k]) /\ tasks[k].st = "sleeping") =>
                tasks[k].delay >= 1000 * LastResponse(tasks[k]).header

\* a rate limit is retried to the budget, which the retry loop does satisfy
RateLimitRetriedToBudget ==
    \A k \in DOMAIN tasks :
        (Got429(tasks[k]) /\ tasks[k].st = "thrown") => tasks[k].calls = tasks[k].maxRetries

\* the latest call of executeRest ended with a fetch that rejected: a failure
\* of the network, with no HTTP status
GotNetworkFailure(t) == t.hist # <<>> /\ LastResponse(t).net

\* C14: a failure of the network (no HTTP status) is retried like a status
\* >= 500: the call only throws it after maxRetries calls of executeRest.
C14_NetworkFailureRetried ==
    \A k \in DOMAIN tasks :
        (GotNetworkFailure(tasks[k]) /\ tasks[k].st = "thrown") =>
            tasks[k].calls = tasks[k].maxRetries

\* the retryAfter of an absent or numeric header, which executeRest gets right
RateLimitErrorOfParsable429 ==
    \A k \in DOMAIN tasks :
        (Got429(tasks[k]) /\ LastResponse(tasks[k]).header # NaN) =>
            /\ tasks[k].lastError.name = "RateLimitError"
            /\ tasks[k].lastError.retryAfter = HintOr5(LastResponse(tasks[k]).header)

(***************************************************************************)
(* The helper functions called on their own: args holds the function's     *)
(* name and arguments, returned what the call returned.                    *)
(***************************************************************************)
\* largest attempt index handed to calculateBackoff
MaxBackoffAttempt == 6

Returned(v) == [set |-> TRUE, value |-> v]

NotCalled ==
    /\ config = HealthyConfig(FALSE, 0)
    /\ payload = NullPayload
    /\ target = NoTarget
    /\ source = SourceData("object", <<>>)
    /\ remote = <<>>
    /\ tasks = <<>>
    /\ nodeEnv = "unset"
    /\ IdleRun

BackoffArgs ==
    {[fn |-> "calculateBackoff", attempt |-> n, jitter |-> j] :
        n \in 0..MaxBackoffAttempt, j \in 0..(JitterRange - 1)}

CallCalculateBackoff ==
    /\ args.fn = "calculateBackoff"
    /\ ~returned.set
    /\ returned' = Returned(calculateBackoff(args.attempt, args.jitter))
    /\ UNCHANGED <<adapter, config, payload, target, source, remote, nodeEnv, args, tasks, g2rRun, store>>

\* longest customer name, largest amount (cents on top of the base), longest
\* metadata.quantity
MaxNameLen == 4

MaxCents == 250

MaxQuantityLen == 2

NameChars == {"a", "b", " "}

QuantityChars == {"0", "1", "2", "x"}

\* a payment intent with a one-word name, 1.50 of amount and no quantity
PlainObject ==
    [email |-> "a@b.com", receipt_email |-> "absent", hasName |-> TRUE, name |-> <<"a">>,
     amount |-> [big |-> FALSE, off |-> 150], hasQuantity |-> FALSE, quantity |-> <<>>]

NamedObjects ==
    {[PlainObject EXCEPT !.name = n] : n \in SeqsUpTo(NameChars, MaxNameLen)}
    \cup {[PlainObject EXCEPT !.hasName = FALSE, !.name = <<>>]}

PricedObjects ==
    {[PlainObject EXCEPT !.amount = [big |-> b, off |-> c]] : b \in BOOLEAN, c \in 0..MaxCents}

QuantifiedObjects ==
    {[PlainObject EXCEPT !.hasQuantity = TRUE, !.quantity = q] :
        q \in SeqsUpTo(QuantityChars, MaxQuantityLen)}

\* the caller's mappings: none, an override of a default target, a new target
StripeMappings ==
    {{}, {<<"data.object.receipt_email", "email">>},
     {<<"data.object.receipt_email", "contactEmail">>}}

StripeArgs ==
    {[fn |-> "transformStripeToShopify", obj |-> o, customMappings |-> {}] :
        o \in NamedObjects \cup PricedObjects \cup QuantifiedObjects}
    \cup {[fn |-> "transformStripeToShopify",
           obj |-> [PlainObject EXCEPT !.receipt_email = e], customMappings |-> m] :
            e \in {"absent", "r@b.com"}, m \in StripeMappings}

CallTransformStripeToShopify ==
    /\ args.fn = "transformStripeToShopify"
    /\ ~returned.set
    /\ returned' = Returned(transformStripeToShopify(args.obj, args.customMappings))
    /\ UNCHANGED <<adapter, config, payload, target, source, remote, nodeEnv, args, tasks, g2rRun, store>>

\* largest number of entries of customMappings
MaxMappings == 2

\* a Shopify product, with or without a vendor
Products ==
    {(<<"id">> :> "p1") @@ (<<"title">> :> "T") @@ (<<"firstVariant", "price">> :> "9.99"),
     (<<"id">> :> "p1") @@ (<<"title">> :> "T") @@ (<<"vendor">> :> "V")}

ShopifyPaths == {<<"title">>, <<"vendor">>, <<"id">>}

\* target paths: a default leaf at the top and a nested one, a new leaf at the
\* top and nested ones, a path below a default leaf, and the metadata object
StripePaths ==
    {<<"description">>, <<"metadata", "price">>, <<"name">>, <<"address", "city">>,
     <<"description", "text">>, <<"metadata">>}

\* the mappings objects of up to MaxMappings entries (an object has one entry
\* per key)
ShopifyMappings ==
    {es \in SeqsUpTo(ShopifyPaths \X StripePaths, MaxMappings) :
        \A m, n \in DOMAIN es : m # n => es[m][1] # es[n][1]}

ShopifyArgs ==
    {[fn |-> "transformShopifyToStripe", product |-> p, customMappings |-> es] :
        p \in Products, es \in ShopifyMappings}

CallTransformShopifyToStripe ==
    /\ args.fn = "transformShopifyToStripe"
    /\ ~returned.set
    /\ returned' = Returned(transformShopifyToStripe(args.product, args.customMappings))
    /\ UNCHANGED <<adapter, config, payload, target, source, remote, nodeEnv, args, tasks, g2rRun, store>>

\* longest path handed to getNestedValue
MaxPathLen == 3

PathKeys == {"a", "b", "c"}

\* null, undefined, and objects with nested, null and empty-string leaves
NestedObjects ==
    {(<<>> :> "null"), (<<>> :> "absent"),
     (<<"a", "b", "c">> :> "v") @@ (<<"c">> :> "w"),
     (<<"a">> :> "null") @@ (<<"b", "c">> :> "") @@ (<<"b", "a">> :> "v")}

\* the paths are the pieces path.split('.') gives: one at least
GetterArgs ==
    {[fn |-> "getNestedValue", root |-> o, path |-> q] :
        o \in NestedObjects, q \in SeqsUpTo(PathKeys, MaxPathLen) \ {<<>>}}

CallGetNestedValue ==
    /\ args.fn = "getNestedValue"
    /\ ~returned.set
    /\ returned' = Returned(getNestedValueOutcome(args.root, args.path))
    /\ UNCHANGED <<adapter, config, payload, target, source, remote, nodeEnv, args, tasks, g2rRun, store>>

\* the data handed to parseGraphQLResponse: connections, flat sequences, and a
\* single object
ParserArgs ==
    {[fn |-> "parseGraphQLResponse", data |-> SourceData(sh, ns)] :
        sh \in {"products", "edges", "array"},
        ns \in SeqsUpTo({"product", "null"} \cup VariantNodes, MaxFaultItems)}
    \cup {[fn |-> "parseGraphQLResponse", data |-> SourceData("object", <<>>)]}

CallParseGraphQLResponse ==
    /\ args.fn = "parseGraphQLResponse"
    /\ ~returned.set
    /\ returned' = Returned(parseGraphQLResponse(args.data))
    /\ UNCHANGED <<adapter, config, payload, target, source, remote, nodeEnv, args, tasks, g2rRun, store>>

RestMethods == {"GET", "POST", "PUT", "PATCH", "DELETE"}

\* the payloads handed to executeRest: what transformShopifyToStripe builds for
\* the products, a payload with a null leaf, and the empty object
RestPayloads ==
    {defaultStripePayload(q) : q \in Products}
    \cup {(<<"description">> :> "d") @@ (<<"metadata", "price">> :> "null")}
    \cup {<<>>}

RequestArgs ==
    {[fn |-> "executeRest", method |-> m, payload |-> q] : m \in RestMethods, q \in RestPayloads}

\* executeRest up to its  await fetch(endpoint, options)
CallExecuteRest ==
    /\ args.fn = "executeRest"
    /\ ~returned.set
    /\ returned' = Returned(executeRestRequest(args.method, args.payload))
    /\ UNCHANGED <<adapter, config, payload, target, source, remote, nodeEnv, args, tasks, g2rRun, store>>

PureInit ==
    /\ adapter = "helper"
    /\ store = NewStore
    /\ NotCalled
    /\ args \in BackoffArgs \cup StripeArgs \cup ShopifyArgs \cup RequestArgs \cup GetterArgs
                \cup ParserArgs
    /\ returned = NoReturn

PureNext ==
    \/ CallCalculateBackoff
    \/ CallTransformStripeToShopify
    \/ CallTransformShopifyToStripe
    \/ CallExecuteRest
    \/ CallGetNestedValue
    \/ CallParseGraphQLResponse

SpecPure == PureInit /\ [][PureNext]_vars

\* calculateBackoff was called with attempt n and returned
BackoffReturned == args.fn = "calculateBackoff" /\ returned.set

\* min(1000 * 2^n, 30000), written out
CappedDelay(n) == IF n >= 5 THEN 30000 ELSE 1000 * (2 ^ n)

\* C12: the delay d calculateBackoff computes for attempt n satisfies
\* min(1000 * 2^n, 30000) <= d < min(1000 * 2^n, 30000) + 1000, and d < 31000.
C12_BackoffRange ==
    BackoffReturned =>
        /\ CappedDelay(args.attempt) <= returned.value
        /\ returned.value < CappedDelay(args.attempt) + 1000
        /\ returned.value = CappedDelay(args.attempt) + args.jitter
        /\ returned.value < 31000

\* the cap is in force and the jitter is the largest there is
C12_Witness ==
    BackoffReturned /\ args.attempt >= 5 /\ args.jitter = 999 /\ returned.value = 30999

(***************************************************************************)
(* Properties of the orchestrators' GraphQL calls.                         *)
(***************************************************************************)
\* a GraphQL answer the retry policy would retry: a rate limit or a status >= 500
RetryableAnswer(r) == ~r.net /\ (r.status = 429 \/ r.status >= 500)

\* the GraphQL remote of the run, whose answer to every request is the same
GraphQLRemote == IF adapter = "r2g" THEN target ELSE source

\* the run made its GraphQL request, had a retryable answer, and has returned
ReturnedAfterRetryableAnswer ==
    /\ adapter \in {"g2r", "r2g"}
    /\ pc = "done"
    /\ queries >= 1
    /\ RetryableAnswer(GraphQLRemote)

\* C15: the GraphQL call of each orchestrator is wrapped by the retry policy: a
\* run whose GraphQL request keeps getting a retryable answer (rate limit or
\* status >= 500) has re-attempted the request before it returns its failure
\* envelope.
C15_GraphQLCallRetried ==
    ReturnedAfterRetryableAnswer => queries > 1

\* what the orchestrators do instead: one GraphQL request per run at most
GraphQLCalledOnce == adapter \in {"g2r", "r2g"} => queries <= 1

(***************************************************************************)
(* Properties of processBatch's concurrency.                               *)
(***************************************************************************)
\* the items whose executeRestWithRetry call is under way: waiting for a
\* response or for a backoff timer
InFlight == {k \in DOMAIN tasks : tasks[k].st \in {"fetching", "sleeping"}}

\* the items whose callback has been started
Started == {k \in DOMAIN promises : promises[k] # NoPromise}

InProcessBatch == IsG2R /\ config.batchMode /\ pc \in {"batch", "pause", "done"}

\* C16: during processBatch at most batchSize items are in flight; the items
\* started are those of the batches up to the current one; every item of an
\* earlier batch has produced its outcome (the join); and a batch after the
\* first is only started once the wait after the batch before it has elapsed:
\* while that wait lasts, no item of the next batch is started.
C16_BoundedJoinedGroups ==
    InProcessBatch =>
        /\ Cardinality(InFlight) <= BatchSizeOf(config)
        /\ \A k \in Started : k <= i + BatchSizeOf(config)
        /\ \A k \in Started : k <= i => promises[k].st = "fulfilled"
        /\ Len(groups) <= sleeps + 1
        /\ pc = "pause" => Len(groups) = sleeps /\ InFlight = {}

\* a second batch is running at full width, after the first was joined
C16_Witness ==
    /\ InProcessBatch /\ pc = "batch"
    /\ BatchSizeOf(config) = 2 /\ i = 2 /\ sleeps = 1
    /\ Cardinality(InFlight) = 2
    /\ \A k \in 1..2 : promises[k].st = "fulfilled"

(***************************************************************************)
(* Properties of transformStripeToShopify.                                 *)
(***************************************************************************)
StripeReturned == args.fn = "transformStripeToShopify" /\ returned.set

\* C18: for an integer amount a > 0 of minor units, totalPrice is the digits of
\* a div 100, a '.', and a mod 100 written with two digits.
C18_TotalPriceExact ==
    (StripeReturned /\ (args.obj.amount.big \/ args.obj.amount.off > 0)) =>
        returned.value.totalPrice =
            [big |-> args.obj.amount.big,
             units |-> args.obj.amount.off \div 100,
             cents |-> args.obj.amount.off % 100]

\* the amounts below 2^46 * 100, for which the formatting is exact
TotalPriceExactBelowBase ==
    (StripeReturned /\ ~args.obj.amount.big /\ args.obj.amount.off > 0) =>
        returned.value.totalPrice =
            [big |-> FALSE,
             units |-> args.obj.amount.off \div 100,
             cents |-> args.obj.amount.off % 100]

\* the text of s before its first space (all of s when it has none), and the
\* text after it (empty when s has no space)
BeforeFirstSpace(s) ==
    IF \E n \in DOMAIN s : s[n] = " "
    THEN SubSeq(s, 1, (CHOOSE n \in DOMAIN s : s[n] = " " /\ \A m \in 1..(n - 1) : s[m] # " ") - 1)
    ELSE s

AfterFirstSpace(s) ==
    IF \E n \in DOMAIN s : s[n] = " "
    THEN SubSeq(s, (CHOOSE n \in DOMAIN s : s[n] = " " /\ \A m \in 1..(n - 1) : s[m] # " ") + 1, Len(s))
    ELSE <<>>

\* the customer name of the call, the empty text when the payload has none
GivenName == IF args.obj.hasName THEN args.obj.name ELSE <<>>

\* the statement of C19 as it stands: firstName is the text before the first
\* space of the name (the whole name when it has no space), lastName the text
\* after it (empty when it has no space).
C19_Original ==
    (StripeReturned /\ args.obj.hasName) =>
        /\ returned.value.firstName = BeforeFirstSpace(args.obj.name)
        /\ returned.value.lastName = AfterFirstSpace(args.obj.name)

\* C19: the name is split on its first space: lastName is everything after the
\* first space, the empty text when there is no space (never null or
\* undefined); firstName is the text before the first space, and the
\* placeholder 'Customer' when that text is empty (the name is absent, empty
\* or begins with a space).
C19_SplitOnFirstSpace ==
    StripeReturned =>
        /\ returned.value.lastName = AfterFirstSpace(GivenName)
        /\ returned.value.firstName =
            (IF BeforeFirstSpace(GivenName) = <<>> THEN CustomerText
             ELSE BeforeFirstSpace(GivenName))

\* a name of three words: the last name keeps the two words after the first space
C19_Witness ==
    /\ StripeReturned
    /\ args.obj.name = <<"a", " ", "b", " ">>
    /\ returned.value.firstName = <<"a">>
    /\ returned.value.lastName = <<"b", " ">>

\* metadata.quantity is a string of digits
AllDigits(s) == s # <<>> /\ \A n \in DOMAIN s : IsDigit(s[n])

\* C20: quantity is always an integer: the integer metadata.quantity holds when
\* it is parsable (a string of digits), and 1 when it is absent or begins with
\* no digit.
C20_QuantityInteger ==
    StripeReturned =>
        /\ returned.value.quantity # NaN
        /\ ~args.obj.hasQuantity => returned.value.quantity = 1
        /\ (args.obj.hasQuantity /\ AllDigits(args.obj.quantity)) =>
                returned.value.quantity = LeadingDigits(args.obj.quantity, 0)
        /\ (args.obj.hasQuantity /\ parseInt(args.obj.quantity) = NaN) =>
                returned.value.quantity = 1

\* the quantities that are absent or begin with a digit, which the transform
\* parses to an integer
QuantityOfParsable ==
    (StripeReturned /\ (args.obj.quantity = <<>> \/ IsDigit(args.obj.quantity[1]))) =>
        /\ returned.value.quantity # NaN
        /\ ~args.obj.hasQuantity => returned.value.quantity = 1
        /\ AllDigits(args.obj.quantity) =>
                returned.value.quantity = LeadingDigits(args.obj.quantity, 0)

(***************************************************************************)
(* Properties of the custom mappings, in both directions.                  *)
(***************************************************************************)
ShopifyReturned == args.fn = "transformShopifyToStripe" /\ returned.set

\* the target carries value at path
Carries(obj, path, value) == path \in DOMAIN obj /\ obj[path] = value

\* an entry of the Shopify mappings that no later entry can undo: none of the
\* later entries writes to its target path, above it or below it
Unchallenged(entries, n) ==
    \A m \in (n + 1)..Len(entries) :
        /\ entries[m][2] # entries[n][2]
        /\ ~IsProperPrefix(entries[m][2], entries[n][2])
        /\ ~IsProperPrefix(entries[n][2], entries[m][2])

\* C17: in both directions an override sourcePath -> targetPath whose source
\* value is present puts that value at targetPath of the produced target, in
\* the place of any default value there.
C17_OverrideWins ==
    /\ StripeReturned =>
        \A m \in args.customMappings :
            getNestedValue_R2G(args.obj, m[1]) # "absent" =>
                Carries(returned.value, m[2], getNestedValue_R2G(args.obj, m[1]))
    /\ ShopifyReturned =>
        \A n \in DOMAIN args.customMappings :
            (getNestedValue(args.product, args.customMappings[n][1]) # "absent"
             /\ Unchallenged(args.customMappings, n)) =>
                Carries(returned.value, args.customMappings[n][2],
                        getNestedValue(args.product, args.customMappings[n][1]))

\* the Shopify -> Stripe direction and the target paths that do not run
\* through a string of the payload: there the override wins
OverrideWinsShopify ==
    ShopifyReturned =>
        \A n \in DOMAIN args.customMappings :
            (getNestedValue(args.product, args.customMappings[n][1]) # "absent"
             /\ Unchallenged(args.customMappings, n)
             /\ args.customMappings[n][2] # <<"description", "text">>
             /\ \A e \in 1..(n - 1) :
                    ~IsProperPrefix(args.customMappings[e][2], args.customMappings[n][2])) =>
                Carries(returned.value, args.customMappings[n][2],
                        getNestedValue(args.product, args.customMappings[n][1]))

(***************************************************************************)
(* Properties of the timing of the retry loop.                             *)
(***************************************************************************)
\* C30: waits occur only between attempts: a call that has ended after k
\* attempts (k calls of executeRest) has performed exactly k - 1 backoff waits,
\* none after the attempt that used up the budget; the wait after attempt n
\* (0-indexed) lasts 1000 * 2^n ms plus a jitter below 1000 ms (about 1 s
\* before the second attempt, about 2 s before the third).
C30_WaitsOnlyBetweenAttempts ==
    \A k \in DOMAIN tasks :
        /\ (TaskDone(tasks[k]) /\ tasks[k].calls >= 1) => tasks[k].waits = tasks[k].calls - 1
        /\ tasks[k].st = "sleeping" =>
            /\ tasks[k].delay >= CappedDelay(tasks[k].attempt)
            /\ tasks[k].delay < CappedDelay(tasks[k].attempt) + 1000

\* the waits of a call that has not used up its budget, and the length of every
\* wait, which the retry loop gets right
WaitsBeforeExhaustion ==
    \A k \in DOMAIN tasks :
        /\ (TaskDone(tasks[k]) /\ tasks[k].calls >= 1 /\ tasks[k].calls < tasks[k].maxRetries
                /\ tasks[k].authOk) =>
                tasks[k].waits = tasks[k].calls - 1
        /\ tasks[k].waits <= tasks[k].calls
        /\ tasks[k].st = "sleeping" =>
            /\ tasks[k].delay >= CappedDelay(tasks[k].attempt)
            /\ tasks[k].delay < CappedDelay(tasks[k].attempt) + 1000

(***************************************************************************)
(* Properties of the error kinds of the GraphQL executors.                 *)
(***************************************************************************)
\* the GraphQL request of the run got no 2xx answer: a status outside 200..299,
\* or no answer at all
TransportFailed(r) == r.net \/ ~ResponseOk(r)

\* the error classes that stand for a failure of the transport
TransportErrorNames == {"TransportError", "RestAPIError"}

\* C26: when a GraphQL call ends with a non-2xx status or a failure of the
\* network, the failure envelope reports a typed transport error, which
\* carries the status code when there is one, and not an untyped error.
C26_GraphQLTransportErrorTyped ==
    (adapter \in {"g2r", "r2g"} /\ pc = "done" /\ queries >= 1
            /\ TransportFailed(GraphQLRemote)) =>
        /\ envelope.hasError
        /\ envelope.error.name \in TransportErrorNames
        /\ ~GraphQLRemote.net => envelope.error.statusCode = GraphQLRemote.status

\* what the run does return then: a failure envelope whose error is a plain Error
TransportFailureReported ==
    (adapter \in {"g2r", "r2g"} /\ pc = "done" /\ queries >= 1
            /\ TransportFailed(GraphQLRemote)) =>
        /\ envelope.returned /\ ~envelope.success /\ envelope.hasError
        /\ envelope.error = PlainError

(***************************************************************************)
(* Properties of the request executeRest sends.                            *)
(***************************************************************************)
RequestBuilt == args.fn = "executeRest" /\ returned.set

\* the bracket-notation key of a leaf at depth one or two
BracketKey(q) == IF Len(q) = 1 THEN q[1] ELSE q[1] \o "[" \o q[2] \o "]"

\* every leaf of the payload that has a value is among the pairs, under its
\* bracket-notation key
Transmits(pairs, obj) ==
    \A q \in DOMAIN obj : obj[q] # "null" => <<BracketKey(q), obj[q]>> \in pairs

\* C27: for each of GET, POST, PUT, PATCH and DELETE and every non-empty
\* payload the request carries the payload exactly once: in the form-encoded
\* body, under bracket-notation keys, for POST, PUT, PATCH and DELETE, and in
\* the query string for GET; for no method is the payload dropped.
C27_PayloadTransmittedOnce ==
    (RequestBuilt /\ DOMAIN args.payload # {}) =>
        IF args.method = "GET"
        THEN /\ Transmits(returned.value.query, args.payload)
             /\ ~returned.value.hasBody
        ELSE /\ returned.value.hasBody
             /\ Transmits(returned.value.body, args.payload)
             /\ returned.value.query = {}

\* the same for GET, POST, PUT and PATCH alone, which executeRest does satisfy
PayloadTransmittedButDelete ==
    (RequestBuilt /\ DOMAIN args.payload # {} /\ args.method # "DELETE") =>
        IF args.method = "GET"
        THEN /\ Transmits(returned.value.query, args.payload)
             /\ ~returned.value.hasBody
        ELSE /\ returned.value.hasBody
             /\ Transmits(returned.value.body, args.payload)
             /\ returned.value.query = {}

(***************************************************************************)
(* Properties of getNestedValue.                                           *)
(***************************************************************************)
GetterReturned == args.fn = "getNestedValue" /\ returned.set

\* every segment of path q exists in obj
EverySegmentExists(obj, q) ==
    \A n \in 1..Len(q) : NodeAt(obj, SubSeq(q, 1, n)) # "absent"

\* C21: getNestedValue never throws, null and undefined objects included: it
\* returns the value at the path when every segment exists, and undefined as
\* soon as a segment is missing.
C21_GetNestedValueTotal ==
    GetterReturned =>
        /\ ~returned.value.threw
        /\ EverySegmentExists(args.root, args.path) =>
                returned.value.value = NodeAt(args.root, args.path)
        /\ ~EverySegmentExists(args.root, args.path) => returned.value.value = "absent"

\* a path of three segments through a null leaf: undefined, nothing thrown
C21_Witness ==
    /\ GetterReturned
    /\ NodeAt(args.root, <<"a">>) = "null"
    /\ args.path = <<"a", "b", "c">>
    /\ returned.value = [threw |-> FALSE, value |-> "absent"]

(***************************************************************************)
(* Properties of parseGraphQLResponse.                                     *)
(***************************************************************************)
ParserReturned == args.fn = "parseGraphQLResponse" /\ returned.set

\* C22: a single object that is not a connection comes back as a sequence of
\* one element, that object; a sequence that is flat already comes back
\* unchanged; and parsing the sequence a parse returned gives it back again.
C22_FlatInputUnchanged ==
    ParserReturned =>
        /\ args.data.shape = "object" =>
                returned.value.ok /\ returned.value.items = <<"product">>
        /\ args.data.shape = "array" =>
                returned.value.ok /\ returned.value.items = args.data.nodes
        /\ returned.value.ok =>
                parseGraphQLResponse(SourceData("array", returned.value.items)).items
                    = returned.value.items

\* a flat sequence of two elements, one of them null, comes back as it was
C22_Witness ==
    /\ ParserReturned
    /\ args.data.shape = "array"
    /\ args.data.nodes = <<"product", "null">>
    /\ returned.value.items = <<"product", "null">>

(***************************************************************************)
(* Properties of the stack trace in the failure envelope.                  *)
(***************************************************************************)
\* C23: an envelope either orchestrator returns carries a stack trace only when
\* NODE_ENV is 'development': with any other setting no envelope carries one,
\* whatever the kind of the error.
C23_StackOnlyInDevelopment ==
    (adapter \in {"g2r", "r2g"} /\ envelope.hasStack) =>
        nodeEnv = "development" /\ envelope.hasError

\* a validation failure reported without a stack, NODE_ENV not being 'development'
C23_Witness ==
    /\ adapter = "r2g" /\ pc = "done" /\ nodeEnv = "unset"
    /\ envelope.hasError /\ envelope.error.name = "ValidationError"
    /\ ~envelope.hasStack

(***************************************************************************)
(* Properties of the caller's config.                                      *)
(***************************************************************************)
\* C24: no step of either orchestrator, in a run that succeeds or fails, of a
\* single item or of a batch, changes a field of the caller's config.
C24_ConfigUnchanged == [][config' = config]_vars

\* a batch run that applied the default batchSize has returned, and the config
\* still has no batchSize of its own
C24_Witness ==
    /\ adapter = "g2r" /\ pc = "done" /\ envelope.success
    /\ config.batchMode /\ config.batchSize = 0
    /\ Len(items) > DefaultBatchSize /\ Len(groups) = 2

(***************************************************************************)
(* Properties of the per-item outcomes of processBatch.                    *)
(***************************************************************************)
\* the outcomes processBatch has produced so far: the values of the fulfilled
\* callbacks and the entries pushed onto results
BatchOutcomes ==
    IF adapter = "g2r" /\ config.present /\ config.batchMode
    THEN {promises[k].value : k \in {q \in DOMAIN promises : promises[q].st = "fulfilled"}}
         \cup {results[k] : k \in DOMAIN results}
    ELSE {}

\* C25: every per-item outcome produced by processBatch has at least one of
\* data and error set: a success outcome carries data, a failure outcome
\* carries an error, for every REST response and every thrown error.
C25_OutcomeHasDataOrError ==
    \A o \in BatchOutcomes :
        /\ o.hasData \/ o.hasError
        /\ o.success => o.hasData
        /\ ~o.success => o.hasError

\* the same for the items whose REST response has a body other than null, and
\* the failure half for every item, which processBatch does satisfy
OutcomeSetUnlessNullBody ==
    \A o \in BatchOutcomes :
        /\ o.of \in DOMAIN remote /\ remote[o.of].body # "null" => o.hasData \/ o.hasError
        /\ ~o.success => o.hasError /\ ~o.hasData
        /\ o.success => ~o.hasError

(***************************************************************************)
(* Independence of the concurrent items of a batch.                        *)
(***************************************************************************)
\* executeRestWithRetry run to its end on its own, every request answered r
RECURSIVE RunAlone(_, _)
RunAlone(t, r) ==
    IF t.st = "fetching" THEN RunAlone(Settle(t, r, 0), r)
    ELSE IF t.st = "sleeping" THEN RunAlone(Wake(t), r)
    ELSE t

\* the call and the promise of item k when its callback runs with no sibling
TaskAlone(k) == RunAlone(LaunchTask(items[k], config), remote[k])

PromiseAlone(k) ==
    IF TransformThrows(items[k], config) THEN ItemCatch(k, items[k], TypeError)
    ELSE ItemPromise(k, items[k], TaskAlone(k))

InBatchRun ==
    adapter = "g2r" /\ config.present /\ config.batchMode /\ pc \in {"batch", "pause", "done"}

\* C29: the concurrent items of a batch share no mutable state: whatever the
\* interleaving of the siblings' attempts, waits and completions, the call of
\* item k ends as it does when run alone on item k and the responses to item
\* k's own requests, and the outcome recorded for item k is that of the run
\* alone.
C29_ItemsIndependent ==
    InBatchRun =>
        /\ \A k \in DOMAIN tasks \cap DOMAIN remote :
            /\ TaskDone(tasks[k]) => tasks[k] = TaskAlone(k)
            /\ promises[k].st \in {"fulfilled", "rejected"} => promises[k] = PromiseAlone(k)
        /\ \A n \in DOMAIN results :
            results[n].of \in DOMAIN remote => results[n] = PromiseAlone(results[n].of).value

\* two siblings of one group, answered differently, have run interleaved: the
\* second returned while the first was still retrying, and both are recorded
C29_Witness ==
    /\ InBatchRun /\ pc = "done" /\ Len(groups) = 1 /\ Len(results) = 2
    /\ remote[1] = Rest503 /\ remote[2] = RestOk
    /\ order = <<2, 1>>
    /\ tasks[1].requests = DefaultMaxRetries /\ tasks[2].requests = 1
    /\ ~results[1].success /\ results[2].success

(***************************************************************************)
(* graphqlToRestAdapter under the batchSize values the handler passes      *)
(* through ( req.body.batchSize || 5 : every truthy value, the negative    *)
(* ones included), with every response arriving, every timer firing and   *)
(* every continuation run in the end.                                      *)
(***************************************************************************)
\* largest number of items, and largest batchSize in either direction
MaxLiveItems == 3

MaxLiveBatch == 2

LiveInit ==
    /\ adapter = "g2r"
    /\ \E b \in (0 - MaxLiveBatch)..MaxLiveBatch, m \in BOOLEAN : config = HealthyConfig(m, b)
    /\ \E n \in 0..MaxLiveItems :
        /\ source = SourceData("products", [k \in 1..n |-> "product"])
        /\ remote \in SeqsOf({RestOk, Rest503}, n)
    /\ payload = NullPayload
    /\ target = NoTarget
    /\ pc = "start" /\ items = <<>> /\ i = 0 /\ tasks = <<>> /\ promises = <<>>
    /\ results = <<>> /\ groups = <<>> /\ order = <<>> /\ sleeps = 0 /\ queries = 0
    /\ envelope = NoEnvelope /\ escaped = FALSE
    /\ args = NoArgs /\ returned = NoReturn
    /\ nodeEnv = "unset"
    /\ store = NewStore

SpecLive == LiveInit /\ [][G2RNext]_vars /\ WF_vars(G2RNext)

\* C28: every graphqlToRestAdapter invocation eventually returns, for every
\* item count and every batchSize the handler passes through (zero and
\* negative values included), and no item is sent more than maxAttempts REST
\* requests.
C28_ReturnsWithinBudget ==
    /\ [](\A k \in DOMAIN tasks : tasks[k].requests <= DefaultMaxRetries)
    /\ <>(pc = "done")

\* the request budget alone, which holds for every batchSize
RequestBudgetKept == \A k \in DOMAIN tasks : tasks[k].requests <= DefaultMaxRetries

\* the invocations with a batchSize of zero or more do return
ReturnsUnlessNegative == (config.batchSize >= 0) ~> (pc = "done")

\* a batch run over at least one item with a negative batchSize never returns:
\* the loop index only goes down, every later group is empty, and the test
\* i + batchSize < items.length  keeps sending the loop to its sleep
NegativeBatchNeverReturns ==
    (config.batchMode /\ config.batchSize < 0 /\ Len(items) > 0) =>
        /\ pc \in {"batch", "pause"}
        /\ i <= 0
        /\ MoreBatches(i, config.batchSize, Len(items))
        /\ Len(groups) > 1 => GroupOf(i, config.batchSize, Len(items)) = {}

(***************************************************************************)
(* Properties of server errors whose body does not parse.                  *)
(***************************************************************************)
\* the latest call of executeRest was answered with an HTTP status >= 500
GotServerError(t) ==
    t.hist # <<>> /\ ~LastResponse(t).net /\ LastResponse(t).status >= 500

\* C39: a response with an HTTP status >= 500 is raised by executeRest as an
\* error carrying that status, whether or not its body parses as JSON, and
\* executeRestWithRetry retries it: the call only throws it once the budget of
\* maxRetries calls is used up.
C39_ServerErrorKeepsStatus ==
    \A k \in DOMAIN tasks :
        GotServerError(tasks[k]) =>
            /\ tasks[k].lastError.statusCode = LastResponse(tasks[k]).status
            /\ tasks[k].st = "thrown" => tasks[k].calls = tasks[k].maxRetries

\* the same for the server errors whose body is a JSON object, which
\* executeRest does satisfy
ParsableServerErrorKeepsStatus ==
    \A k \in DOMAIN tasks :
        (GotServerError(tasks[k]) /\ LastResponse(tasks[k]).json
                /\ LastResponse(tasks[k]).body # "null") =>
            /\ tasks[k].lastError.statusCode = LastResponse(tasks[k]).status
            /\ tasks[k].st = "thrown" => tasks[k].calls = tasks[k].maxRetries

(***************************************************************************)
(* Properties of the order of the steps of graphqlToRestAdapter.           *)
(***************************************************************************)
\* REST requests put on the wire so far, over all items
RECURSIVE SumRequests(_, _)
SumRequests(ts, n) == IF n = 0 THEN 0 ELSE SumRequests(ts, n - 1) + ts[n].requests

RestRequests == SumRequests(tasks, Len(tasks))

\* the source query fails: no response, a non-ok status, a body that does not
\* parse, a body with an errors list, or no auth object to send it with
SourceFails ==
    \/ ~config.sourceAuth
    \/ source.net
    \/ ~ResponseOk(source)
    \/ ~source.json
    \/ Len(source.errors) > 0

\* C32: no REST request is issued before the source query has succeeded and
\* its data has been flattened; when the source query fails no REST request is
\* ever issued and the call returns a success:false envelope.
C32_SourceBeforeRest ==
    (adapter = "g2r" /\ config.present) =>
        /\ pc \in {"start", "query"} => RestRequests = 0
        /\ RestRequests > 0 =>
            /\ ~SourceFails
            /\ parseGraphQLResponse(source).ok
            /\ items = parseGraphQLResponse(source).items
        /\ SourceFails => RestRequests = 0
        /\ (SourceFails /\ pc = "done") =>
            envelope.returned /\ ~envelope.success /\ envelope.hasError

\* the source answered with a GraphQL errors list: the call has returned the
\* failure envelope without a single REST request
C32_Witness ==
    /\ adapter = "g2r" /\ pc = "done" /\ queries = 1
    /\ Len(source.errors) > 0 /\ source.hasData
    /\ envelope.returned /\ ~envelope.success
    /\ envelope.error.name = "GraphQLError"
    /\ RestRequests = 0 /\ tasks = <<>>

(***************************************************************************)
(* Properties of the batch envelope.                                       *)
(***************************************************************************)
\* the source query and the flattening have succeeded, and the batch branch
\* was taken
BatchEntered ==
    /\ adapter = "g2r" /\ config.present /\ config.batchMode
    /\ ~SourceFails /\ parseGraphQLResponse(source).ok

\* C36: in batch mode, once the source query and the flattening have
\* succeeded, the call returns success:true with data.processed equal to the
\* number of flattened items, whatever the outcomes of the items are; the
\* failures of items show only inside data.results.
C36_BatchAlwaysSucceeds ==
    (BatchEntered /\ pc = "done") =>
        /\ envelope.returned /\ envelope.success
        /\ envelope.processed = Len(parseGraphQLResponse(source).items)

\* the same when every flattened item is an object, which the batch branch
\* does satisfy even when the REST request of every item fails
BatchOfObjectsSucceeds ==
    (BatchEntered /\ pc = "done" /\ \A k \in DOMAIN items : items[k] # "null") =>
        /\ envelope.returned /\ envelope.success
        /\ envelope.processed = Len(parseGraphQLResponse(source).items)
        /\ Len(envelope.results) = Len(items)

(***************************************************************************)
(* Properties of a source query that yields no item.                       *)
(***************************************************************************)
\* the source query succeeded and its data flattened to an empty sequence
NoItems ==
    /\ adapter = "g2r" /\ config.present /\ pc \in {"batch", "pause", "single", "done"}
    /\ ~SourceFails /\ parseGraphQLResponse(source).ok
    /\ parseGraphQLResponse(source).items = <<>>

\* C37: when the source query yields zero items the call issues no REST
\* request and performs no wait between batches, with batch mode enabled and
\* with batch mode disabled.
C37_NoItemsNoRequests ==
    NoItems => RestRequests = 0 /\ sleeps = 0

\* the same with batch mode enabled, which processBatch does satisfy
NoItemsNoRequestsInBatchMode ==
    (NoItems /\ config.batchMode) =>
        /\ RestRequests = 0 /\ sleeps = 0
        /\ pc = "done" /\ envelope.success /\ envelope.processed = 0

(***************************************************************************)
(* Properties of setNestedValue followed by getNestedValue.                *)
(***************************************************************************)
\* transformShopifyToStripe was called with one mapping whose source path
\* holds a value: setNestedValue has run once, on the default payload
OneValueSet ==
    /\ ShopifyReturned
    /\ Len(args.customMappings) = 1
    /\ getNestedValue(args.product, args.customMappings[1][1]) # "absent"

\* the target path goes through a string of the default payload
BelowString(path) ==
    \E q \in DOMAIN defaultStripePayload(args.product) : IsProperPrefix(q, path)

\* C33: setNestedValue followed by getNestedValue round-trips: after
\* setNestedValue(obj, p, v), getNestedValue(obj, p) is v, the missing
\* intermediate containers being created, also when an intermediate segment of
\* p already holds a non-object value such as the payload's description string.
C33_SetThenGet ==
    OneValueSet =>
        getNestedValue(returned.value, args.customMappings[1][2])
            = getNestedValue(args.product, args.customMappings[1][1])

\* the same for the paths that do not go through a string of the payload, for
\* which setNestedValue does create the containers and the round trip holds
SetThenGetUnlessBelowString ==
    (OneValueSet /\ ~BelowString(args.customMappings[1][2])) =>
        getNestedValue(returned.value, args.customMappings[1][2])
            = getNestedValue(args.product, args.customMappings[1][1])

(***************************************************************************)
(* Properties of the two payload encoders.                                 *)
(***************************************************************************)
\* C38: the two encoders agree: for every payload the key/value pairs of
\* encodeStripePayload (the form body) are those of flattenObject (the query
\* string), for null fields and for nesting below the first level too.
C38_EncodersAgree ==
    RequestBuilt => encodeStripePayload(args.payload) = flattenObject(args.payload)

\* the same for the payloads without a null field, on which the encoders do
\* agree, and the difference on the others: exactly the null fields
EncodersAgreeButNull ==
    RequestBuilt =>
        /\ (\A q \in DOMAIN args.payload : args.payload[q] # "null") =>
                encodeStripePayload(args.payload) = flattenObject(args.payload)
        /\ encodeStripePayload(args.payload) \subseteq flattenObject(args.payload)
        /\ \A pair \in flattenObject(args.payload) \ encodeStripePayload(args.payload) :
                pair[2] = "null"

(***************************************************************************)
(* Properties of validatePayload.                                          *)
(***************************************************************************)
\* the first requirement, in declaration order, that payload p does not meet:
\* the event type, the amount, the currency, the customer's email
FirstFailing(p) ==
    IF p.type # SupportedEvent THEN "type"
    ELSE IF p.amount = Undefined THEN "amount"
    ELSE IF p.currency = "absent" THEN "currency"
    ELSE IF p.customer # "a@b.com" THEN "customer.email"
    ELSE "none"

\* restToGraphQLAdapter has returned for a payload object with a data.object
Validated == IsR2G /\ pc = "done" /\ config.present /\ payload.isObject /\ payload.data = "object"

\* C31: validatePayload fails if and only if a required element is missing or
\* empty, with a ValidationError that names the first failing requirement in
\* declaration order (event type, amount, currency, customer email); a payload
\* with every required element, an integer amount included, is accepted.
C31_FirstFailingNamed ==
    Validated =>
        IF FirstFailing(payload) = "none"
        THEN envelope.error.name # "ValidationError"
        ELSE envelope.error = ValidationError(FirstFailing(payload))

\* the same when the amount 0 is counted as missing, which validatePayload
\* does satisfy
FirstFailingNamedButZero ==
    (Validated /\ payload.amount # 0) =>
        IF FirstFailing(payload) = "none"
        THEN envelope.error.name # "ValidationError"
        ELSE envelope.error = ValidationError(FirstFailing(payload))

(***************************************************************************)
(* The protocol store driven by the user interface: any sequence of calls  *)
(* of its functions.  args holds the latest call, returned the value of    *)
(* the latest canSelectMore().                                             *)
(***************************************************************************)
StoreInit ==
    /\ adapter = "store"
    /\ NotCalled
    /\ args = NoArgs /\ returned = NoReturn
    /\ store = NewStore

StoreFrame ==
    UNCHANGED <<adapter, config, payload, target, source, remote, nodeEnv, tasks, g2rRun>>

CallSelectProtocol ==
    /\ adapter = "store"
    /\ \E p \in Protocols :
        /\ store' = selectProtocol(store, p)
        /\ args' = [fn |-> "selectProtocol", protocol |-> p]
    /\ UNCHANGED returned
    /\ StoreFrame

CallDeselectProtocol ==
    /\ adapter = "store"
    /\ \E p \in Protocols :
        /\ store' = deselectProtocol(store, p)
        /\ args' = [fn |-> "deselectProtocol", protocol |-> p]
    /\ UNCHANGED returned
    /\ StoreFrame

CallClearSelection ==
    /\ adapter = "store"
    /\ store' = clearSelection(store)
    /\ args' = [fn |-> "clearSelection", protocol |-> "none"]
    /\ UNCHANGED returned
    /\ StoreFrame

CallSetInputMethod ==
    /\ adapter = "store"
    /\ \E m \in InputMethods : store' = setInputMethod(store, m)
    /\ args' = [fn |-> "setInputMethod", protocol |-> "none"]
    /\ UNCHANGED returned
    /\ StoreFrame

CallReset ==
    /\ adapter = "store"
    /\ store' = reset(store)
    /\ args' = [fn |-> "reset", protocol |-> "none"]
    /\ UNCHANGED returned
    /\ StoreFrame

CallCanSelectMore ==
    /\ adapter = "store"
    /\ returned' = Returned(canSelectMore(store))
    /\ args' = [fn |-> "canSelectMore", protocol |-> "none"]
    /\ UNCHANGED store
    /\ StoreFrame

StoreNext ==
    \/ CallSelectProtocol
    \/ CallDeselectProtocol
    \/ CallClearSelection
    \/ CallSetInputMethod
    \/ CallReset
    \/ CallCanSelectMore

SpecStore == StoreInit /\ [][StoreNext]_vars

(***************************************************************************)
(* Properties of the protocol store.                                       *)
(***************************************************************************)
NoDuplicates(selected) ==
    \A m, n \in DOMAIN selected : m # n => selected[m] # selected[n]

\* C35: after any sequence of selectProtocol, deselectProtocol, clearSelection
\* and reset, selectedProtocols holds at most two protocols and no duplicate;
\* selectProtocol of a protocol already selected, or on a full selection,
\* leaves the state unchanged; canSelectMore() is true exactly when fewer than
\* two protocols are selected.
C35_AtMostTwoSelected ==
    adapter = "store" =>
        /\ Len(store.selectedProtocols) <= 2
        /\ NoDuplicates(store.selectedProtocols)
        /\ \A p \in Protocols :
            (Includes(store.selectedProtocols, p) \/ Len(store.selectedProtocols) >= 2) =>
                selectProtocol(store, p) = store
        /\ canSelectMore(store) <=> Len(store.selectedProtocols) < 2
        /\ (args.fn = "canSelectMore") =>
                (returned.value <=> Len(store.selectedProtocols) < 2)

\* a third protocol was just refused: two are selected, the call named one that
\* is not among them, and the latest canSelectMore() answered false
C35_Witness ==
    /\ adapter = "store"
    /\ args.fn = "selectProtocol"
    /\ Len(store.selectedProtocols) = 2
    /\ ~Includes(store.selectedProtocols, args.protocol)
    /\ returned.set /\ ~returned.value

(***************************************************************************)
(* Properties of parseGraphQLResponse on a products connection.            *)
(***************************************************************************)
ProductsParsed == ParserReturned /\ args.data.shape = "products"

\* the item the flattening is to make of a node: the node with firstVariant
\* set to the node of its first variant edge, or to null when there is none
ItemOf(node) ==
    IF node = "product{variants:[variant]}"
    THEN "product{variants:[variant],firstVariant:variant}"
    ELSE IF node = "product{variants:[null]}" THEN "product{variants:[null],firstVariant:null}"
    ELSE IF node = "product{variants:[]}" THEN "product{variants:[],firstVariant:null}"
    ELSE node

\* C34: for a products connection with k edges parseGraphQLResponse returns
\* exactly k items in edge order, item i being the node of edge i with
\* firstVariant set to the node of its first variant edge, or null when the
\* variant list is empty.
C34_OneItemPerEdge ==
    ProductsParsed =>
        /\ returned.value.ok
        /\ Len(returned.value.items) = Len(args.data.nodes)
        /\ \A n \in DOMAIN args.data.nodes :
            returned.value.items[n] = ItemOf(args.data.nodes[n])

\* the same for the connections whose nodes are all objects, which
\* parseGraphQLResponse does satisfy; with a null node it throws a TypeError
OneItemPerObjectNode ==
    ProductsParsed =>
        IF \E n \in DOMAIN args.data.nodes : args.data.nodes[n] = "null"
        THEN ~returned.value.ok /\ returned.value.err = TypeError
        ELSE /\ returned.value.ok
             /\ Len(returned.value.items) = Len(args.data.nodes)
             /\ \A n \in DOMAIN args.data.nodes :
                    returned.value.items[n] = ItemOf(args.data.nodes[n])

====
